---- MODULE Spec2Model ----
(***************************************************************************)
(* Collaborative element selection of WebCrawlerCompanion:                 *)
(*   - the WebSocket relay of server/routes.ts (BroadcastHub),             *)
(*   - the useWebSocket hook of client/src/hooks/use-websocket.ts          *)
(*     (RealtimeChannel),                                                  *)
(*   - the generateSelector functions of the DOMViewer / ElementSelector   *)
(*     components (SelectorDeriver).                                       *)
(***************************************************************************)
EXTENDS Integers, Sequences, FiniteSets, TLC

(***************************************************************************)
(* Bounds of the model.                                                    *)
(***************************************************************************)
MaxSockets == 3
MaxSends == 2
NumElements == 3

\* The viewers: each runs one instance of the useWebSocket hook.
Viewers == {"v1", "v2"}
\* A raw WebSocket client that does not use the hook (it can write any text).
Peer == "peer"
Clients == Viewers \cup {Peer}
Sockets == 1..MaxSockets
\* wsRef.current = null
NoSocket == 0

VARIABLES
  \* ---- RealtimeChannel (one useWebSocket instance per viewer) ----
  phase,          \* "init" | "mounted" | "unmounted" : life cycle of the hook's component
  wsRef,          \* wsRef.current : the socket the hook currently refers to, or NoSocket
  isConnected,    \* the isConnected state of the hook
  timerPending,   \* the timer reconnectTimeoutRef.current refers to is pending
  leakedTimers,   \* pending reconnect timers that reconnectTimeoutRef no longer refers to
  \* ---- sockets (client end, hub end, and the frames written on them) ----
  nSock,          \* number of WebSocket objects constructed so far
  owner,          \* the client that constructed the socket
  cState,         \* readyState of the client end
  hState,         \* state of the hub end; in wss.clients iff OPEN or CLOSING
  onmessage,      \* the socket object has the onmessage handler of subscribe
  toHub,          \* every frame written on the client end, in order
  hubIdx,         \* how many of them the hub's 'message' handler has processed
  toClient,       \* every frame the hub wrote on its end, in order
  cliIdx,         \* how many of them the browser has dispatched as message events
  \* ---- history ----
  seq,            \* number of send calls made so far by each client
  dropped,        \* send calls that returned without writing: <<client, call number>>
  handled,        \* per viewer: the frames whose value was passed to the subscribed callback
  \* ---- SelectorDeriver ----
  doc,            \* the document in the iframe: parent, id and classList of each node
  derived,        \* the last call of a generateSelector: function, element, result
  \* ---- SelectionOverlay (a DOMViewer component inside a Home page) ----
  viewer,         \* the DOMViewer component in use: "part_002" | "part_003" | "part_004"
  home,           \* the Home component in use: "Home" | "part_001"
  panel,          \* the ElementSelector component in use: "ElementSelector" | "part_006"
  domContent,     \* domContent of Home: NoContent ("") or the number of a page
  isSelectionMode,   \* isSelectionMode of Home (isSelectMode of DOMViewer in part_002)
  isIframeLoaded,    \* isIframeLoaded of DOMViewer (part_003)
  listening,      \* the iframe document has the listeners of the DOMViewer's effect
  isPressingRef,  \* isPressingRef.current
  pressTargetRef, \* pressTargetRef.current: NoNode (null) or the element
  pressTimer,     \* the hold timer pressTimerRef.current refers to is pending
  leakedPressTimers, \* pending hold timers pressTimerRef no longer refers to
  previewElement, \* previewElement of DOMViewer (part_003): the element, and
                  \* whether it is an element of the document now in the iframe
  hostClassList,  \* classList of the host page's element under the touch point
  hovered,        \* the element of the iframe's document the mouse pointer is over
                  \* (mouseover was dispatched for it, mouseout not yet), or NoNode
  selectedElement,   \* selectedElement of Home: a selector, or NoSelector (null)
  sheetOpen,      \* ElementSelector is mounted (Home renders it inside a Sheet)
  selectedSelectors, \* selectedSelectors of ElementSelector
  raised,         \* an exception has left a handler or an effect
  \* ---- history of the overlay ----
  commitFlip,     \* changes at every call of onElementSelect
  lastCommit,     \* the last call of onElementSelect: whether there was one, and
                  \* whether its element was in the iframe's document (or the host page)
  gesture,        \* the touch that started last: the touched element, whether it
                  \* is down, started the timer pressTimerRef holds, has moved,
                  \* and the commits made for it (for another element: other)
  \* ---- the saving ElementSelector and the selector store ----
  panelSelectors,     \* selectedSelectors of the saving ElementSelector: selectors
  selectedAttributes, \* selectedAttributes of the saving ElementSelector
  requests,       \* the mutations under way: the body, the lists when mutate was
                  \* called, and how far the request has got
  saves,          \* calls of mutation.mutate so far
  selectors,      \* MemStorage.selectors, in the order of their ids
  currentSelectorId, \* MemStorage.currentSelectorId
  toast           \* the title of the toast shown last

rtVars == <<phase, wsRef, isConnected, timerPending, leakedTimers, nSock, owner,
            cState, hState, onmessage, toHub, hubIdx, toClient, cliIdx,
            seq, dropped, handled>>

ovVars == <<viewer, home, panel, domContent, isSelectionMode, isIframeLoaded,
            listening, isPressingRef, pressTargetRef, pressTimer, leakedPressTimers,
            previewElement, hostClassList, hovered, selectedElement, sheetOpen,
            selectedSelectors,
            raised, commitFlip, lastCommit, gesture,
            panelSelectors, selectedAttributes, requests, saves, selectors,
            currentSelectorId, toast>>

domVars == <<doc, derived, ovVars>>

vars == <<rtVars, domVars>>

(***************************************************************************)
(* Wire text and JSON.  A text frame is either text that is not JSON, the  *)
(* JSON text "null", or the JSON text of an object; an object is a record  *)
(* whose domain is the set of properties it has (an absent property reads  *)
(* as undefined).                                                          *)
(***************************************************************************)
TextGarbage == [k |-> "text", o |-> <<>>]
TextNull == [k |-> "null", o |-> <<>>]
TextOf(obj) == [k |-> "obj", o |-> obj]

\* JSON.stringify of an object whose properties are all defined.
JSONstringify(obj) == TextOf(obj)

\* JSON.parse: throws on text that is not JSON, else returns the value.
JSONparse(text) ==
  [threw |-> text.k = "text", isNull |-> text.k = "null",
   isObject |-> text.k = "obj", val |-> text.o]

\* The properties `names` of obj that are defined: what JSON.stringify keeps of
\* an object literal { n: obj.n, ... } (an undefined property is left out).
CopyProps(obj, names) == [f \in (names \cap DOMAIN obj) |-> obj[f]]

\* A frame on the wire: its text and, as history, the send call it stems from
\* (client c, call number n) and the socket s that call wrote it on.
Frame(text, c, n, s) == [p |-> text, c |-> c, n |-> n, s |-> s]

(***************************************************************************)
(* The values the environment chooses from.                                *)
(***************************************************************************)
SampleData == [text |-> "Hi"]
SampleAttributes == <<"text">>

\* Arguments of send(type, data), given as the object { type, ...data }.
SelectObject ==
  [type |-> "SELECT_ELEMENT", selector |-> "#app > p.lead",
   attributes |-> SampleAttributes, data |-> SampleData]

HighlightObject ==
  [type |-> "HIGHLIGHT_ELEMENT", selector |-> "#app > p.lead",
   attributes |-> SampleAttributes]

SendObjects == {SelectObject}

\* Text a raw client writes on a connection the hub is studied on.
HubTexts ==
  { JSONstringify(SelectObject), JSONstringify(HighlightObject),
    TextGarbage, TextNull,
    JSONstringify([type |-> "ELEMENT_SELECTED", selector |-> "#app > p.lead"]) }

\* Text another client writes while a viewer's channel is studied.
PeerTexts ==
  { JSONstringify(SelectObject), JSONstringify([type |-> "SELECT_ELEMENT"]) }

(***************************************************************************)
(* The document.  Node 1 is the HTML element, its children are HEAD and    *)
(* BODY; the elements below BODY follow.  The children of a node are in    *)
(* the order of their numbers.                                             *)
(***************************************************************************)
\* parentElement of the root
NoNode == 0
HtmlNode == 1
HeadNode == 2
BodyNode == 3
Elements == (BodyNode + 1)..(BodyNode + NumElements)
Nodes == 1..(BodyNode + NumElements)

\* element.tagName (upper case in an HTML document)
tagName(n) ==
  IF n = HtmlNode THEN "HTML"
  ELSE IF n = HeadNode THEN "HEAD"
  ELSE IF n = BodyNode THEN "BODY"
  ELSE IF n % 2 = 0 THEN "DIV" ELSE "P"

\* String.prototype.toLowerCase on the tag names of the model
toLowerCase(tag) ==
  CASE tag = "HTML" -> "html"
    [] tag = "HEAD" -> "head"
    [] tag = "BODY" -> "body"
    [] tag = "DIV" -> "div"
    [] tag = "P" -> "p"

\* The id an element has when it has one (ids are unique in a document).
IdNames == <<"app", "hero", "main", "nav", "foot">>
IdOf(n) == IdNames[n - BodyNode]

\* The class lists an element may carry: classes of the page and the marker
\* classes the overlay adds.
ClassLists ==
  { <<>>, <<"lead">>, <<"lead", "highlight-target">>, <<"selected-element">>,
    <<"lead", "highlighted">> }

\* The document with the given parents, ids and class lists of its elements.
MakeDoc(par, hasId, cls, bodyClasses) ==
  [parent |-> [n \in Nodes |->
                 IF n = HtmlNode THEN NoNode
                 ELSE IF n \in {HeadNode, BodyNode} THEN HtmlNode
                 ELSE par[n]],
   id |-> [n \in Nodes |-> IF n \in Elements /\ hasId[n] THEN IdOf(n) ELSE ""],
   classList |-> [n \in Nodes |->
                    IF n \in Elements THEN cls[n]
                    ELSE IF n = BodyNode THEN bodyClasses ELSE <<>>]]

\* The documents of the model: each element is a child of BODY or of the
\* element before it.
Documents ==
  { MakeDoc(par, hasId, cls, bodyClasses) :
      par \in {f \in [Elements -> Nodes] :
                 \A n \in Elements : f[n] \in {BodyNode, n - 1} \ {HeadNode}},
      hasId \in [Elements -> BOOLEAN],
      cls \in [Elements -> ClassLists],
      bodyClasses \in {<<>>, <<"selectable">>} }

\* parent.children, in document order
children(d, n) == {m \in Nodes : d.parent[m] = n}

\* A faulty variant of the index: Array.from(parent.children).indexOf(element)
indexOf(d, n) == Cardinality({m \in children(d, d.parent[n]) : m < n})

\* Array.from(parent.children).indexOf(element) + 1
childIndex(d, n) == Cardinality({m \in children(d, d.parent[n]) : m <= n})

(***************************************************************************)
(* Selector strings are sequences of tokens: a tag name, "#" and an id,    *)
(* "." and a class name, ":nth-child(", a number and ")", and " > ".       *)
(***************************************************************************)
\* Array.prototype.filter
RECURSIVE filter(_, _)
filter(list, excluded) ==
  IF list = <<>> THEN <<>>
  ELSE IF Head(list) \in excluded
       THEN filter(Tail(list), excluded)
       ELSE <<Head(list)>> \o filter(Tail(list), excluded)

\* Array.prototype.join: the items (token sequences) with sep between them;
\* the empty string for an empty array.
RECURSIVE join(_, _)
join(items, sep) ==
  IF items = <<>> THEN <<>>
  ELSE IF Len(items) = 1 THEN Head(items)
       ELSE Head(items) \o <<sep>> \o join(Tail(items), sep)

\* Each class name as a one-token string.
Strings(list) == [i \in 1..Len(list) |-> <<list[i]>>]

(***************************************************************************)
(* RealtimeChannel: client/src/hooks/use-websocket.ts.                     *)
(* The handlers are state transformers on the record W of the variables    *)
(* they read and write, so that a handler that calls another one is their  *)
(* composition.                                                            *)
(***************************************************************************)
ChannelState ==
  [wsRef |-> wsRef, isConnected |-> isConnected, timerPending |-> timerPending,
   leakedTimers |-> leakedTimers, nSock |-> nSock, owner |-> owner, cState |-> cState]

Install(W) ==
  /\ wsRef' = W.wsRef
  /\ isConnected' = W.isConnected
  /\ timerPending' = W.timerPending
  /\ leakedTimers' = W.leakedTimers
  /\ nSock' = W.nSock
  /\ owner' = W.owner
  /\ cState' = W.cState

\* new WebSocket(wsUrl): the next socket object, owned by client c, CONNECTING.
NewWebSocket(W, c) ==
  [W EXCEPT !.nSock = @ + 1, !.owner[W.nSock + 1] = c,
            !.cState[W.nSock + 1] = "CONNECTING"]

\* wsRef.current?.readyState === WebSocket.OPEN
CurrentIsOpen(W, v) ==
  /\ W.wsRef[v] # NoSocket
  /\ W.cState[W.wsRef[v]] = "OPEN"

\* connect(): returns at once when the current socket is OPEN, else replaces
\* wsRef.current by a new socket (the handlers onopen, onclose and onerror are
\* set on every socket connect creates).
connect(W, v) ==
  IF CurrentIsOpen(W, v)
  THEN W
  ELSE [NewWebSocket(W, v) EXCEPT !.wsRef[v] = W.nSock + 1]

\* The model has a socket left for the call of connect() to construct.
CanConnect(W, v) == CurrentIsOpen(W, v) \/ W.nSock < MaxSockets

\* WebSocket.close(): CONNECTING and OPEN sockets start closing.
wsClose(W, s) ==
  IF W.cState[s] \in {"CONNECTING", "OPEN"}
  THEN [W EXCEPT !.cState[s] = "CLOSING"]
  ELSE W

\* setIsConnected: a state update of an unmounted component is ignored.
setIsConnected(W, v, b) ==
  IF phase[v] = "mounted" THEN [W EXCEPT !.isConnected[v] = b] ELSE W

\* clearTimeout(reconnectTimeoutRef.current)
clearReconnectTimeout(W, v) == [W EXCEPT !.timerPending[v] = FALSE]

\* reconnectTimeoutRef.current = setTimeout(connect, 2000): a timer the ref
\* referred to before stays pending, and nothing refers to it any more.
setReconnectTimeout(W, v) ==
  [W EXCEPT !.leakedTimers[v] = IF W.timerPending[v] THEN @ + 1 ELSE @,
            !.timerPending[v] = TRUE]

onopen(W, v) == clearReconnectTimeout(setIsConnected(W, v, TRUE), v)

onclose(W, v) == setReconnectTimeout(setIsConnected(W, v, FALSE), v)

\* onerror closes wsRef.current, whichever socket the error is of.
onerror(W, v) ==
  IF W.wsRef[v] # NoSocket THEN wsClose(W, W.wsRef[v]) ELSE W

\* The cleanup of the hook's effect.
cleanup(W, v) ==
  clearReconnectTimeout(IF W.wsRef[v] # NoSocket THEN wsClose(W, W.wsRef[v]) ELSE W, v)

(***************************************************************************)
(* BroadcastHub: the 'connection' / 'message' handlers of registerRoutes.  *)
(***************************************************************************)
\* wss.clients: the hub ends that completed the handshake and have not closed.
InClients(s) == hState[s] \in {"OPEN", "CLOSING"}

\* Two faulty variants of Recipients: one does not exclude the sender, the
\* other does not test readyState.
RecipientsWithSender(ws) == {client \in Sockets : hState[client] = "OPEN"}

RecipientsNotOpen(ws) == {client \in Sockets : client # ws /\ InClients(client)}

\* client !== ws && client.readyState === WebSocket.OPEN, over wss.clients
Recipients(ws) == {client \in Sockets : client # ws /\ hState[client] = "OPEN"}

\* The object literal of case 'SELECT_ELEMENT'.
SelectedRelay(data) ==
  ("type" :> "ELEMENT_SELECTED") @@ CopyProps(data, {"selector", "attributes"})

\* The object literal of case 'HIGHLIGHT_ELEMENT'.
HighlightedRelay(data) ==
  ("type" :> "ELEMENT_HIGHLIGHTED") @@ CopyProps(data, {"selector"})

\* A faulty variant of HubReply: a frame of any other type is relayed as it is.
HubReplyDefaultCase(text) ==
  LET r == JSONparse(text)
      data == r.val
  IN IF r.threw \/ r.isNull \/ ~r.isObject \/ "type" \notin DOMAIN data
     THEN <<>>
     ELSE IF data.type = "SELECT_ELEMENT"
          THEN <<JSONstringify(SelectedRelay(data))>>
          ELSE IF data.type = "HIGHLIGHT_ELEMENT"
               THEN <<JSONstringify(HighlightedRelay(data))>>
               ELSE <<text>>

\* The texts the 'message' handler sends to each recipient for one inbound
\* text: none when JSON.parse throws, when data.type throws (data is null)
\* or when no case of the switch matches.
HubReply(text) ==
  LET r == JSONparse(text)
      data == r.val
  IN IF r.threw \/ r.isNull \/ ~r.isObject \/ "type" \notin DOMAIN data
     THEN <<>>
     ELSE IF data.type = "SELECT_ELEMENT"
          THEN <<JSONstringify(SelectedRelay(data))>>
          ELSE IF data.type = "HIGHLIGHT_ELEMENT"
               THEN <<JSONstringify(HighlightedRelay(data))>>
               ELSE <<>>

\* wsRef.current.send(message): the frame follows those written on the socket before.
SocketWrite(log, frame) == Append(log, frame)

\* A faulty variant of HubWrite: the frame overtakes those written before.
HubWritePrepend(log, frame) == <<frame>> \o log

\* client.send(text) of the hub: the frame follows those the hub wrote on that
\* connection before.
HubWrite(log, frame) == Append(log, frame)

(***************************************************************************)
(* Initial state: no hook is mounted, no socket exists.                    *)
(***************************************************************************)
InitRealtime(mounting) ==
  /\ phase = [v \in Viewers |-> IF v \in mounting THEN "init" ELSE "absent"]
  /\ wsRef = [v \in Viewers |-> NoSocket]
  /\ isConnected = [v \in Viewers |-> FALSE]
  /\ timerPending = [v \in Viewers |-> FALSE]
  /\ leakedTimers = [v \in Viewers |-> 0]
  /\ nSock = 0
  /\ owner = [s \in Sockets |-> "none"]
  /\ cState = [s \in Sockets |-> "UNUSED"]
  /\ hState = [s \in Sockets |-> "NONE"]
  /\ onmessage = [s \in Sockets |-> FALSE]
  /\ toHub = [s \in Sockets |-> <<>>]
  /\ hubIdx = [s \in Sockets |-> 0]
  /\ toClient = [s \in Sockets |-> <<>>]
  /\ cliIdx = [s \in Sockets |-> 0]
  /\ seq = [c \in Clients |-> 0]
  /\ dropped = {}
  /\ handled = [v \in Viewers |-> <<>>]

\* The number of frames the clients may still hand to send (a bound of the model).
SendsLeft == MaxSends - (seq["v1"] + seq["v2"] + seq[Peer])

(***************************************************************************)
(* Actions of a viewer's hook.                                             *)
(***************************************************************************)
\* useEffect(() => { connect(); ... }, [connect])
Mount(v) ==
  /\ phase[v] = "init"
  /\ CanConnect(ChannelState, v)
  /\ phase' = [phase EXCEPT ![v] = "mounted"]
  /\ Install(connect(ChannelState, v))
  /\ UNCHANGED domVars
  /\ UNCHANGED <<hState, onmessage, toHub, hubIdx, toClient, cliIdx, seq, dropped, handled>>

\* The effect's cleanup, at unmount.
Unmount(v) ==
  /\ phase[v] = "mounted"
  /\ phase' = [phase EXCEPT ![v] = "unmounted"]
  /\ Install(cleanup(ChannelState, v))
  /\ UNCHANGED domVars
  /\ UNCHANGED <<hState, onmessage, toHub, hubIdx, toClient, cliIdx, seq, dropped, handled>>

\* A reconnect timer fires: setTimeout(connect, 2000).  Either the timer the
\* ref refers to or one it no longer refers to.
TimerFire(v) ==
  /\ \E leaked \in BOOLEAN :
       /\ IF leaked THEN leakedTimers[v] > 0 ELSE timerPending[v]
       /\ LET W == IF leaked
                   THEN [ChannelState EXCEPT !.leakedTimers[v] = @ - 1]
                   ELSE [ChannelState EXCEPT !.timerPending[v] = FALSE]
          IN /\ CanConnect(W, v)
             /\ Install(connect(W, v))
  /\ UNCHANGED domVars
  /\ UNCHANGED <<phase, hState, onmessage, toHub, hubIdx, toClient, cliIdx,
                 seq, dropped, handled>>

\* A faulty variant of Send: the message of a call made while the socket is not
\* OPEN is written on the socket the call's connect() leaves in wsRef.current.
SendWritesAnyway(v, obj) ==
  /\ phase[v] = "mounted"
  /\ SendsLeft > 0
  /\ seq' = [seq EXCEPT ![v] = @ + 1]
  /\ CanConnect(ChannelState, v)
  /\ LET W == connect(ChannelState, v)
     IN /\ Install(W)
        /\ toHub' = [toHub EXCEPT ![W.wsRef[v]] =
               SocketWrite(@, Frame(JSONstringify(obj), v, seq[v] + 1, W.wsRef[v]))]
  /\ dropped' = IF CurrentIsOpen(ChannelState, v)
                THEN dropped
                ELSE dropped \cup {<<v, seq[v] + 1>>}
  /\ UNCHANGED domVars
  /\ UNCHANGED <<phase, hState, onmessage, hubIdx, toClient, cliIdx, handled>>

\* send(type, data), obj being { type, ...data }.
Send(v, obj) ==
  /\ phase[v] = "mounted"
  /\ SendsLeft > 0
  /\ seq' = [seq EXCEPT ![v] = @ + 1]
  /\ IF ~CurrentIsOpen(ChannelState, v)
     THEN /\ CanConnect(ChannelState, v)
          /\ Install(connect(ChannelState, v))
          /\ dropped' = dropped \cup {<<v, seq[v] + 1>>}
          /\ UNCHANGED toHub
     ELSE /\ toHub' = [toHub EXCEPT ![wsRef[v]] =
                 SocketWrite(@, Frame(JSONstringify(obj), v, seq[v] + 1, wsRef[v]))]
          /\ UNCHANGED <<wsRef, isConnected, timerPending, leakedTimers, nSock,
                         owner, cState, dropped>>
  /\ UNCHANGED domVars
  /\ UNCHANGED <<phase, hState, onmessage, hubIdx, toClient, cliIdx, handled>>

\* subscribe(callback): sets onmessage of the socket wsRef.current is now.
Subscribe(v) ==
  /\ phase[v] = "mounted"
  /\ wsRef[v] # NoSocket
  /\ ~onmessage[wsRef[v]]
  /\ onmessage' = [onmessage EXCEPT ![wsRef[v]] = TRUE]
  /\ UNCHANGED domVars
  /\ UNCHANGED <<phase, wsRef, isConnected, timerPending, leakedTimers, nSock,
                 owner, cState, hState, toHub, hubIdx, toClient, cliIdx, seq, dropped, handled>>

\* The onmessage handler subscribe sets: callback(data) is called when
\* JSON.parse does not throw and `data && typeof data === 'object'` holds.
CallbackCalled(text) ==
  LET r == JSONparse(text)
  IN ~r.threw /\ ~r.isNull /\ r.isObject

(***************************************************************************)
(* Events of a socket's client end (tasks of the browser's event loop).    *)
(***************************************************************************)
\* The connection is established: readyState becomes OPEN and onopen runs.
ClientOpen(s) ==
  /\ cState[s] = "CONNECTING"
  /\ hState[s] # "NONE"
  /\ LET W == [ChannelState EXCEPT !.cState[s] = "OPEN"]
     IN Install(onopen(W, owner[s]))
  /\ UNCHANGED domVars
  /\ UNCHANGED <<phase, hState, onmessage, toHub, hubIdx, toClient, cliIdx,
                 seq, dropped, handled>>

\* The connection is closed: readyState becomes CLOSED, an error event is
\* fired first when the connection failed (err), then the close event.
\* A closing socket closes; a connecting one when the relay refuses it; a
\* connecting or open one when its hub end is gone.
ClientClosed(s, err) ==
  /\ \/ cState[s] = "CLOSING"
     \/ cState[s] = "CONNECTING" /\ hState[s] = "NONE"
     \/ cState[s] \in {"CONNECTING", "OPEN"} /\ hState[s] = "CLOSED"
  /\ LET v == owner[s]
         W0 == [ChannelState EXCEPT !.cState[s] = "CLOSED"]
         W1 == IF err THEN onerror(W0, v) ELSE W0
     IN Install(onclose(W1, v))
  /\ UNCHANGED domVars
  /\ UNCHANGED <<phase, hState, onmessage, toHub, hubIdx, toClient, cliIdx,
                 seq, dropped, handled>>

\* A message event: the next frame the hub wrote is dispatched to the
\* socket's onmessage handler, if it has one.
ClientMessage(s) ==
  /\ owner[s] \in Viewers
  /\ cState[s] = "OPEN"
  /\ cliIdx[s] < Len(toClient[s])
  /\ cliIdx' = [cliIdx EXCEPT ![s] = @ + 1]
  /\ LET frame == toClient[s][cliIdx[s] + 1]
     IN handled' = IF onmessage[s] /\ CallbackCalled(frame.p)
                   THEN [handled EXCEPT ![owner[s]] = Append(@, frame)]
                   ELSE handled
  /\ UNCHANGED domVars
  /\ UNCHANGED <<phase, wsRef, isConnected, timerPending, leakedTimers, nSock,
                 owner, cState, hState, onmessage, toHub, hubIdx, toClient,
                 seq, dropped>>

(***************************************************************************)
(* The raw client.                                                         *)
(***************************************************************************)
PeerConnect(limit) ==
  /\ nSock < MaxSockets
  /\ Cardinality({s \in Sockets : owner[s] = Peer}) < limit
  /\ Install([NewWebSocket(ChannelState, Peer) EXCEPT !.cState[nSock + 1] = "RAW"])
  /\ UNCHANGED domVars
  /\ UNCHANGED <<phase, hState, onmessage, toHub, hubIdx, toClient, cliIdx,
                 seq, dropped, handled>>

\* The raw client writes text on a connection the hub still reads.
PeerSend(s, text) ==
  /\ owner[s] = Peer
  /\ InClients(s)
  /\ SendsLeft > 0
  /\ seq' = [seq EXCEPT ![Peer] = @ + 1]
  /\ toHub' = [toHub EXCEPT ![s] = SocketWrite(@, Frame(text, Peer, seq[Peer] + 1, s))]
  /\ UNCHANGED domVars
  /\ UNCHANGED <<phase, wsRef, isConnected, timerPending, leakedTimers, nSock,
                 owner, cState, hState, onmessage, hubIdx, toClient, cliIdx,
                 dropped, handled>>

(***************************************************************************)
(* Events of the hub.                                                      *)
(***************************************************************************)
\* wss.on('connection'): the handshake completes, the socket joins wss.clients
\* and gets the 'message' handler.
HubAccept(s) ==
  /\ cState[s] \in {"CONNECTING", "RAW"}
  /\ hState[s] = "NONE"
  /\ hState' = [hState EXCEPT ![s] = "OPEN"]
  /\ UNCHANGED domVars
  /\ UNCHANGED <<phase, wsRef, isConnected, timerPending, leakedTimers, nSock,
                 owner, cState, onmessage, toHub, hubIdx, toClient, cliIdx,
                 seq, dropped, handled>>

\* The closing handshake of a hub end starts: it stays in wss.clients, CLOSING.
HubClosing(s) ==
  /\ hState[s] = "OPEN"
  /\ hState' = [hState EXCEPT ![s] = "CLOSING"]
  /\ UNCHANGED domVars
  /\ UNCHANGED <<phase, wsRef, isConnected, timerPending, leakedTimers, nSock,
                 owner, cState, onmessage, toHub, hubIdx, toClient, cliIdx,
                 seq, dropped, handled>>

\* A hub end closes and leaves wss.clients.
HubClosed(s) ==
  /\ InClients(s)
  /\ hState' = [hState EXCEPT ![s] = "CLOSED"]
  /\ UNCHANGED domVars
  /\ UNCHANGED <<phase, wsRef, isConnected, timerPending, leakedTimers, nSock,
                 owner, cState, onmessage, toHub, hubIdx, toClient, cliIdx,
                 seq, dropped, handled>>

\* ws.on('message'): the hub handles the next frame received on ws.
HubMessage(ws) ==
  /\ InClients(ws)
  /\ hubIdx[ws] < Len(toHub[ws])
  /\ hubIdx' = [hubIdx EXCEPT ![ws] = @ + 1]
  /\ LET frame == toHub[ws][hubIdx[ws] + 1]
         reply == HubReply(frame.p)
     IN toClient' =
          [client \in Sockets |->
             IF client \in Recipients(ws) /\ reply # <<>>
             THEN HubWrite(toClient[client],
                           Frame(reply[1], frame.c, frame.n, frame.s))
             ELSE toClient[client]]
  /\ UNCHANGED domVars
  /\ UNCHANGED <<phase, wsRef, isConnected, timerPending, leakedTimers, nSock,
                 owner, cState, hState, onmessage, toHub, cliIdx, seq, dropped, handled>>

(***************************************************************************)
(* SelectorDeriver: the generateSelector functions.                        *)
(***************************************************************************)
\* The marker classes generateSelector of DOMViewer filters out.
DOMViewerMarkers == {"highlight-target", "selected-element", "selectable"}

\* The fragment of an element without id in generateSelector of DOMViewer:
\* the lower-case tag name, the classes left by the filter (if any is left),
\* and :nth-child(index) when the element has a parent.
DOMViewerFragment(d, cur) ==
  LET classes == join(Strings(filter(d.classList[cur], DOMViewerMarkers)), ".")
      withClasses ==
        IF d.classList[cur] # <<>> /\ classes # <<>>
        THEN <<toLowerCase(tagName(cur)), ".">> \o classes
        ELSE <<toLowerCase(tagName(cur))>>
  IN IF d.parent[cur] # NoNode
     THEN withClasses \o <<":nth-child(", ToString(childIndex(d, cur)), ")">>
     ELSE withClasses

\* A faulty variant of the loop: the walk goes on above an element with an id.
RECURSIVE DOMViewerPathNoBreak(_, _, _)
DOMViewerPathNoBreak(d, cur, path) ==
  IF cur = NoNode \/ tagName(cur) = "HTML"
  THEN path
  ELSE DOMViewerPathNoBreak(d, d.parent[cur],
         <<IF d.id[cur] # "" THEN <<"#", d.id[cur]>> ELSE DOMViewerFragment(d, cur)>>
           \o path)

\* The while loop of generateSelector of DOMViewer: path is the array built so
\* far; an element with an id ends the walk.
RECURSIVE DOMViewerPath(_, _, _)
DOMViewerPath(d, cur, path) ==
  IF cur = NoNode \/ tagName(cur) = "HTML"
  THEN path
  ELSE IF d.id[cur] # ""
       THEN <<<<"#", d.id[cur]>>>> \o path
       ELSE DOMViewerPath(d, d.parent[cur], <<DOMViewerFragment(d, cur)>> \o path)

\* generateSelector of DOMViewer (the variant with the id short-circuit, the
\* class filter and nth-child)
generateSelectorDOMViewer(d, element) ==
  join(DOMViewerPath(d, element, <<>>), " > ")

\* The marker classes generateSelector of the previewing DOMViewer filters out.
PreviewMarkers ==
  {"highlight-target", "preview-element", "selected-element", "selectable"}

\* generateSelector of the previewing DOMViewer: tag, then #id, or else "."
\* and the filtered classes joined by "." when the class list is not empty.
generateSelectorPreview(d, element) ==
  LET tag == <<toLowerCase(tagName(element))>>
  IN IF d.id[element] # ""
     THEN tag \o <<"#", d.id[element]>>
     ELSE IF Len(d.classList[element]) > 0
          THEN tag \o <<".">>
                   \o join(Strings(filter(d.classList[element], PreviewMarkers)), ".")
          ELSE tag

\* generateSelector of ElementSelector: tag, then #id, or else "." and the
\* classes joined by "." when the class list is not empty.
generateSelectorElementSelector(d, element) ==
  LET tag == <<toLowerCase(tagName(element))>>
  IN IF d.id[element] # ""
     THEN tag \o <<"#", d.id[element]>>
     ELSE IF Len(d.classList[element]) > 0
          THEN tag \o <<".">> \o join(Strings(d.classList[element]), ".")
          ELSE tag

\* The marker classes generateSelector of DOMViewer.tsx filters out.
DOMViewerTsxMarkers == {"highlighted", "selectable"}

\* The fragment of an element without id in generateSelector of DOMViewer.tsx.
DOMViewerTsxFragment(d, cur) ==
  LET classes == join(Strings(filter(d.classList[cur], DOMViewerTsxMarkers)), ".")
      withClasses ==
        IF d.classList[cur] # <<>> /\ classes # <<>>
        THEN <<toLowerCase(tagName(cur)), ".">> \o classes
        ELSE <<toLowerCase(tagName(cur))>>
  IN IF d.parent[cur] # NoNode
     THEN withClasses \o <<":nth-child(", ToString(childIndex(d, cur)), ")">>
     ELSE withClasses

\* The while loop of generateSelector of DOMViewer.tsx.
RECURSIVE DOMViewerTsxPath(_, _, _)
DOMViewerTsxPath(d, cur, path) ==
  IF cur = NoNode \/ tagName(cur) = "HTML"
  THEN path
  ELSE IF d.id[cur] # ""
       THEN <<<<"#", d.id[cur]>>>> \o path
       ELSE DOMViewerTsxPath(d, d.parent[cur], <<DOMViewerTsxFragment(d, cur)>> \o path)

\* generateSelector of DOMViewer.tsx
generateSelectorDOMViewerTsx(d, element) ==
  join(DOMViewerTsxPath(d, element, <<>>), " > ")

(***************************************************************************)
(* Selector queries: Document.querySelector on the selectors of the model. *)
(***************************************************************************)
\* The tokens that are no names.
Punctuation == {"#", ".", ":nth-child(", ")", " > "}

\* Class names of the host page that are no CSS identifiers: the selector
\* parser reads "[" as the start of an attribute selector.
NonIdentifiers == {"h-[600px]", "h-[calc(100vh-8rem)]"}

IsIdent(tok) == tok \notin Punctuation /\ tok \notin NonIdentifiers

\* String.prototype.split on the separator token
RECURSIVE split(_, _)
split(tokens, sep) ==
  IF \A i \in 1..Len(tokens) : tokens[i] # sep
  THEN <<tokens>>
  ELSE LET k == CHOOSE i \in 1..Len(tokens) :
                  tokens[i] = sep /\ \A j \in 1..(i - 1) : tokens[j] # sep
       IN <<SubSeq(tokens, 1, k - 1)>> \o split(SubSeq(tokens, k + 1, Len(tokens)), sep)

\* A compound selector parses: an optional tag name first, then "#" or "."
\* each followed by a name, or :nth-child(k).
RECURSIVE CompoundParses(_, _)
CompoundParses(f, i) ==
  IF i > Len(f) THEN Len(f) > 0
  ELSE IF f[i] \in {"#", "."}
       THEN i + 1 <= Len(f) /\ IsIdent(f[i + 1]) /\ CompoundParses(f, i + 2)
       ELSE IF f[i] = ":nth-child("
            THEN i + 2 <= Len(f) /\ f[i + 2] = ")" /\ CompoundParses(f, i + 3)
            ELSE i = 1 /\ IsIdent(f[i]) /\ CompoundParses(f, 2)

\* The selector parses: each compound between the child combinators does.
SelectorParses(selector) ==
  LET compounds == split(selector, " > ")
  IN \A k \in 1..Len(compounds) : CompoundParses(compounds[k], 1)

\* The element is in the document.
RECURSIVE IsAttached(_, _)
IsAttached(d, n) ==
  n = HtmlNode \/ (d.parent[n] # NoNode /\ IsAttached(d, d.parent[n]))

\* The element matches a compound selector.
MatchesCompound(d, n, f) ==
  /\ f[1] \notin Punctuation => toLowerCase(tagName(n)) = f[1]
  /\ \A i \in 1..(Len(f) - 1) :
       /\ f[i] = "#" => d.id[n] = f[i + 1]
       /\ f[i] = "." => \E j \in 1..Len(d.classList[n]) : d.classList[n][j] = f[i + 1]
       /\ f[i] = ":nth-child(" =>
            d.parent[n] # NoNode /\ ToString(childIndex(d, n)) = f[i + 1]

\* The element matches the last compound, its parent the one before, and so on.
RECURSIVE MatchesPath(_, _, _, _)
MatchesPath(d, n, compounds, k) ==
  /\ MatchesCompound(d, n, compounds[k])
  /\ k > 1 => d.parent[n] # NoNode /\ MatchesPath(d, d.parent[n], compounds, k - 1)

\* The elements of the document the selector matches.
querySelectorAll(d, selector) ==
  LET compounds == split(selector, " > ")
  IN {n \in Nodes : IsAttached(d, n) /\ MatchesPath(d, n, compounds, Len(compounds))}

\* Document.querySelector: throws a SyntaxError for a selector that does not
\* parse; or else the first match in document order, or null.
querySelector(d, selector) ==
  IF ~SelectorParses(selector)
  THEN [threw |-> TRUE, element |-> NoNode]
  ELSE LET all == querySelectorAll(d, selector)
       IN [threw |-> FALSE,
           element |-> IF all = {} THEN NoNode
                       ELSE CHOOSE n \in all : \A m \in all : n <= m]

(***************************************************************************)
(* SelectionOverlay: the pages written into the iframe, the host page, and *)
(* the overlay before the first event.                                     *)
(***************************************************************************)
\* content === "": no page has been written into the iframe
NoContent == 0
NumPages == 2
Contents == 1..NumPages

\* The document of an iframe nothing was written into: HTML, HEAD and BODY.
BlankDoc ==
  MakeDoc([n \in Elements |-> NoNode], [n \in Elements |-> FALSE],
          [n \in Elements |-> <<>>], <<>>)

\* The document after doc.open(); doc.write(content); doc.close().  An odd
\* page is <div id="app"><p class="lead">Hi</p></div> followed by elements
\* without id or class; an even page has the same elements, all children of
\* BODY, without id or class.
PageDoc(c, bodyClasses) ==
  IF c = NoContent THEN BlankDoc
  ELSE IF c % 2 = 1
       THEN MakeDoc([n \in Elements |-> IF n = BodyNode + 2 THEN n - 1 ELSE BodyNode],
                    [n \in Elements |-> n = BodyNode + 1],
                    [n \in Elements |-> IF n = BodyNode + 2 THEN <<"lead">> ELSE <<>>],
                    bodyClasses)
       ELSE MakeDoc([n \in Elements |-> BodyNode], [n \in Elements |-> FALSE],
                    [n \in Elements |-> <<>>], bodyClasses)

\* element.textContent: each P element holds the text "Hi"; the text of an
\* element is the text of its descendants, in order.
RECURSIVE IsInside(_, _, _)
IsInside(d, n, a) ==
  n = a \/ (d.parent[n] # NoNode /\ IsInside(d, d.parent[n], a))

textContent(d, a) ==
  LET k == Cardinality({n \in Elements : tagName(n) = "P" /\ IsInside(d, n, a)})
  IN [i \in 1..k |-> "Hi"]

\* DOMTokenList: contains, add, remove
classListContains(list, c) == \E i \in 1..Len(list) : list[i] = c
classListAdd(list, c) == IF classListContains(list, c) THEN list ELSE Append(list, c)
classListRemove(list, c) == filter(list, {c})

\* document.elementFromPoint in a handler of the component is a query of the
\* host page, not of the iframe's document: it returns null or an element of
\* the host page.  HostNode is the iframe element of the DOMViewer.
HostNode == -1

\* generateSelector applied to the iframe element of the host page: the
\* fragments of the iframe and of the div around it (those of the ancestors
\* rendered around the DOMViewer come before them).
HostSelector(v) ==
  <<"div", ".", "w-full", ".",
    IF v = "part_004" THEN "h-[calc(100vh-8rem)]" ELSE "h-[600px]",
    ".", "overflow-auto", ".", "bg-white", ":nth-child(", "2", ")", " > ",
    "iframe", ".", "w-full", ".", "h-full", ".", "border-0",
    ":nth-child(", "1", ")">>

\* useState<string | null>(null) of Home
NoSelector == <<>>
\* useState<HTMLElement | null>(null) of DOMViewer
NoPreview == [node |-> NoNode, live |-> FALSE, id |-> "", classList |-> <<>>]
NoCommit == [made |-> FALSE, live |-> FALSE]
NoGesture ==
  [touched |-> NoNode, down |-> FALSE, timed |-> FALSE, moved |-> FALSE,
   commits |-> 0, other |-> FALSE]

\* The overlay after the components are constructed.
InitOverlay(viewers, homes, panels) ==
  /\ viewer \in viewers
  /\ home \in homes
  /\ panel \in panels
  /\ domContent = NoContent
  /\ isSelectionMode = FALSE
  /\ isIframeLoaded = FALSE
  /\ listening = FALSE
  /\ isPressingRef = FALSE
  /\ pressTargetRef = NoNode
  /\ pressTimer = FALSE
  /\ leakedPressTimers = 0
  /\ previewElement = NoPreview
  /\ hostClassList = {}
  /\ hovered = NoNode
  /\ selectedElement = NoSelector
  /\ sheetOpen = (home = "part_001")
  /\ selectedSelectors = <<>>
  /\ raised = FALSE
  /\ commitFlip = FALSE
  /\ lastCommit = NoCommit
  /\ gesture = NoGesture
  /\ panelSelectors = <<>>
  /\ selectedAttributes = <<>>
  /\ requests = <<>>
  /\ saves = 0
  /\ selectors = <<>>
  /\ currentSelectorId = 1
  /\ toast = "none"

NoDerivation == [fn |-> "none", element |-> NoNode, selector |-> <<>>]

InitDom ==
  /\ doc = MakeDoc([n \in Elements |-> BodyNode], [n \in Elements |-> FALSE],
                   [n \in Elements |-> <<>>], <<>>)
  /\ derived = NoDerivation
  /\ InitOverlay({"part_002"}, {"Home"}, {"ElementSelector"})

\* selectElement of DOMViewer calls generateSelector(element); it returns
\* before the call for HTML and BODY.
DeriveDOMViewer(element) ==
  /\ tagName(element) \notin {"HTML", "BODY"}
  /\ derived' = [fn |-> "DOMViewer", element |-> element,
                 selector |-> generateSelectorDOMViewer(doc, element)]
  /\ UNCHANGED <<doc, rtVars, ovVars>>

\* handleConfirmSelection calls generateSelector(previewElement); handleClick
\* sets no HTML or BODY element as the preview element.
DerivePreview(element) ==
  /\ tagName(element) \notin {"HTML", "BODY"}
  /\ derived' = [fn |-> "Preview", element |-> element,
                 selector |-> generateSelectorPreview(doc, element)]
  /\ UNCHANGED <<doc, rtVars, ovVars>>

\* selectElement of DOMViewer.tsx calls generateSelector(target) unless the
\* target is HTML or BODY.
DeriveDOMViewerTsx(element) ==
  /\ tagName(element) \notin {"HTML", "BODY"}
  /\ derived' = [fn |-> "DOMViewerTsx", element |-> element,
                 selector |-> generateSelectorDOMViewerTsx(doc, element)]
  /\ UNCHANGED <<doc, rtVars, ovVars>>

\* handleHtmlClick of ElementSelector calls generateSelector(currentElement).
DeriveElementSelector(element) ==
  /\ derived' = [fn |-> "ElementSelector", element |-> element,
                 selector |-> generateSelectorElementSelector(doc, element)]
  /\ UNCHANGED <<doc, rtVars, ovVars>>

(***************************************************************************)
(* SelectionOverlay: the handlers and effects of DOMViewer, Home and       *)
(* ElementSelector are state transformers on the record O of the overlay's *)
(* variables; InstallOverlay makes the result the next state.  A handler   *)
(* is followed by the effects React runs after the re-render it caused.    *)
(***************************************************************************)
MaxLeakedTimers == 1
MaxSelected == 2
MaxAttributes == 2

OverlayState ==
  [doc |-> doc, domContent |-> domContent, isSelectionMode |-> isSelectionMode,
   isIframeLoaded |-> isIframeLoaded, listening |-> listening,
   isPressingRef |-> isPressingRef, pressTargetRef |-> pressTargetRef,
   pressTimer |-> pressTimer, leakedPressTimers |-> leakedPressTimers,
   previewElement |-> previewElement, hostClassList |-> hostClassList,
   hovered |-> hovered,
   selectedElement |-> selectedElement, sheetOpen |-> sheetOpen,
   selectedSelectors |-> selectedSelectors, raised |-> raised,
   commitFlip |-> commitFlip, lastCommit |-> lastCommit, gesture |-> gesture,
   panelSelectors |-> panelSelectors, selectedAttributes |-> selectedAttributes,
   requests |-> requests, saves |-> saves, selectors |-> selectors,
   currentSelectorId |-> currentSelectorId, toast |-> toast]

InstallOverlay(O) ==
  /\ doc' = O.doc
  /\ domContent' = O.domContent
  /\ isSelectionMode' = O.isSelectionMode
  /\ isIframeLoaded' = O.isIframeLoaded
  /\ listening' = O.listening
  /\ isPressingRef' = O.isPressingRef
  /\ pressTargetRef' = O.pressTargetRef
  /\ pressTimer' = O.pressTimer
  /\ leakedPressTimers' = O.leakedPressTimers
  /\ previewElement' = O.previewElement
  /\ hostClassList' = O.hostClassList
  /\ hovered' = O.hovered
  /\ selectedElement' = O.selectedElement
  /\ sheetOpen' = O.sheetOpen
  /\ selectedSelectors' = O.selectedSelectors
  /\ raised' = O.raised
  /\ commitFlip' = O.commitFlip
  /\ lastCommit' = O.lastCommit
  /\ gesture' = O.gesture
  /\ panelSelectors' = O.panelSelectors
  /\ selectedAttributes' = O.selectedAttributes
  /\ requests' = O.requests
  /\ saves' = O.saves
  /\ selectors' = O.selectors
  /\ currentSelectorId' = O.currentSelectorId
  /\ toast' = O.toast
  /\ UNCHANGED <<viewer, home, panel, derived, rtVars>>

\* classList.toggle('selectable', force) on BODY
ToggleSelectable(d, force) ==
  [d EXCEPT !.classList[BodyNode] =
     IF force THEN classListAdd(@, "selectable") ELSE classListRemove(@, "selectable")]

\* querySelectorAll(...).forEach(el => el.classList.remove(...markers))
RemoveMarkers(d, markers) ==
  [d EXCEPT !.classList = [n \in Nodes |-> filter(d.classList[n], markers)]]

\* A reference to an element of the iframe's document after the document has
\* been written anew: the element is no longer in the document; it keeps the
\* id and the classes it had.
Detached(O, ref) ==
  IF ref.node = NoNode \/ ~ref.live THEN ref
  ELSE [node |-> ref.node, live |-> FALSE,
        id |-> O.doc.id[ref.node], classList |-> O.doc.classList[ref.node]]

\* The effect of DOMViewer with the dependencies [content, onElementSelect,
\* isSelectMode, isMultiSelect]: the cleanup of the run before, then the
\* effect.  It writes the document anew and adds the listeners.
ViewerEffect(O) ==
  LET cleaned == [O EXCEPT !.pressTimer = FALSE, !.listening = FALSE]
  IN IF O.domContent = NoContent
     THEN cleaned
     ELSE [cleaned EXCEPT
             !.doc = PageDoc(O.domContent,
                             IF O.isSelectionMode THEN <<"selectable">> ELSE <<>>),
             !.hovered = NoNode,
             !.listening = TRUE]

\* The effect of the previewing DOMViewer with the dependencies
\* [isSelectionMode, isIframeLoaded]: the cleanup removes the listeners, the
\* effect toggles the class of BODY and adds the listeners.
ModeEffect(O) ==
  IF ~O.isIframeLoaded
  THEN [O EXCEPT !.listening = FALSE]
  ELSE [O EXCEPT !.doc = ToggleSelectable(O.doc, O.isSelectionMode),
                 !.listening = TRUE]

\* The effect of the previewing DOMViewer with the dependency [content]:
\* doc.open() removes the nodes and the listeners of the document.
ContentEffect(O) ==
  IF O.domContent = NoContent
  THEN O
  ELSE [O EXCEPT !.doc = PageDoc(O.domContent, <<>>),
                 !.hovered = NoNode,
                 !.listening = FALSE,
                 !.previewElement = Detached(O, O.previewElement),
                 !.isIframeLoaded = TRUE]

\* The SelectionRecord the effect of ElementSelector.tsx builds: the names of
\* the element's attributes without class and style, 'text' first when the
\* element has text; the values of the text and of the attributes.
NewSelector(d, selector, element) ==
  LET text == textContent(d, element)
      names == IF d.id[element] # "" THEN <<"id">> ELSE <<>>
      availableAttributes == IF text # <<>> THEN <<"text">> \o names ELSE names
      extractedData ==
        [a \in {availableAttributes[i] : i \in 1..Len(availableAttributes)} |->
           IF a = "text" THEN text ELSE <<d.id[element]>>]
  IN [selector |-> selector,
      attributes |-> availableAttributes,
      extractedData |-> extractedData,
      availableAttributes |-> availableAttributes]

\* The SelectionRecord the effect of ElementSelector of part_006 builds.
NewSelectorPart006(d, selector, element) ==
  [selector |-> selector,
   attributes |-> <<"text">>,
   extractedData |-> [a \in {"text"} |-> textContent(d, element)]]

\* selectedSelectors.some(s => s.selector === selector)
some(list, selector) == \E i \in 1..Len(list) : list[i].selector = selector

\* A faulty variant of the effect: the record is appended without the check
\* for a record with the same selector.
ListEffectAppends(O) ==
  IF O.selectedElement = NoSelector
  THEN O
  ELSE LET found == querySelector(O.doc, O.selectedElement)
       IN IF found.threw
          THEN [O EXCEPT !.raised = TRUE]
          ELSE IF found.element = NoNode
               THEN O
               ELSE [O EXCEPT !.selectedSelectors =
                       Append(@, IF panel = "part_006"
                                 THEN NewSelectorPart006(O.doc, O.selectedElement,
                                                         found.element)
                                 ELSE NewSelector(O.doc, O.selectedElement,
                                                  found.element))]

\* The effect of ElementSelector with the dependency [selectedElement].
\* ElementSelector.tsx returns when the selector is already in the list;
\* part_006 checks it in the update of the list.
ListEffect(O) ==
  IF O.selectedElement = NoSelector
  THEN O
  ELSE LET found == querySelector(O.doc, O.selectedElement)
       IN IF found.threw
          THEN [O EXCEPT !.raised = TRUE]
          ELSE IF found.element = NoNode
               THEN O
               ELSE IF some(O.selectedSelectors, O.selectedElement)
                    THEN O
                    ELSE [O EXCEPT !.selectedSelectors =
                            Append(@, IF panel = "part_006"
                                      THEN NewSelectorPart006(O.doc, O.selectedElement,
                                                              found.element)
                                      ELSE NewSelector(O.doc, O.selectedElement,
                                                       found.element))]

\* The effects after a handler changed the state from O0 to O: those of the
\* DOMViewer first, then the one of ElementSelector.  Home is rendered anew
\* when its state changed; its handleElementSelect is then a new function.
Effects(O0, O, homeRendered) ==
  LET modeChanged == O.isSelectionMode # O0.isSelectionMode
      contentChanged == O.domContent # O0.domContent
      afterContent ==
        IF viewer = "part_003" /\ contentChanged THEN ContentEffect(O) ELSE O
      afterViewer ==
        IF viewer = "part_003"
        THEN IF modeChanged \/ afterContent.isIframeLoaded # O0.isIframeLoaded
             THEN ModeEffect(afterContent)
             ELSE afterContent
        ELSE IF homeRendered \/ modeChanged THEN ViewerEffect(O) ELSE O
  IN IF O.sheetOpen /\ O.selectedElement # O0.selectedElement
     THEN ListEffect(afterViewer)
     ELSE afterViewer

\* onElementSelect(selector, isMultiSelect): handleElementSelect of Home.
\* Home.tsx also turns the selection mode off; part_001 does not.  The
\* DOMViewer of part_002 has a selection mode of its own, which Home does
\* not set.
Commit(O, element, live, selector, byTouch) ==
  [O EXCEPT !.selectedElement = selector,
            !.isSelectionMode = IF home = "Home" /\ viewer # "part_002" THEN FALSE ELSE @,
            !.commitFlip = ~@,
            !.lastCommit = [made |-> TRUE, live |-> live],
            !.gesture.commits = IF byTouch /\ @ < 2 THEN @ + 1 ELSE @,
            !.gesture.other = @ \/ (byTouch /\ element # O.gesture.touched)]

\* The state after a handler that called onElementSelect or set state of
\* Home: Home is rendered anew when a state of it changed.
Rendered(O0, O) ==
  Effects(O0, O, \/ O.selectedElement # O0.selectedElement
                 \/ O.domContent # O0.domContent
                 \/ (viewer # "part_002" /\ O.isSelectionMode # O0.isSelectionMode))

\* The elements an event of the iframe's document can have as its target.
Targets == {n \in Elements \cup {BodyNode} : IsAttached(doc, n)}

\* handleUrlSubmit of Home: setUrl(submittedUrl); setDomContent(content).
\* The mount effect of Home submits the default page the same way.
LoadContent(c) ==
  /\ ~raised
  /\ c # domContent
  /\ LET O == OverlayState
     IN InstallOverlay(Effects(O, [O EXCEPT !.domContent = c], TRUE))

\* onClick of the "Select Element" / "Cancel Selection" button.  part_002 and
\* part_004 also remove the markers from the elements of the document.
ToggleSelectionMode ==
  /\ ~raised
  /\ LET O == OverlayState
         toggled == [O EXCEPT !.isSelectionMode = ~@]
         O1 == IF viewer = "part_003"
               THEN toggled
               ELSE [toggled EXCEPT
                       !.doc = RemoveMarkers(@, {"selected-element", "highlight-target"})]
     IN InstallOverlay(Effects(O, O1, viewer # "part_002"))

\* handleMouseOver.  The browser dispatches mouseover for the element the
\* pointer enters after mouseout for the one it left; the elements of a
\* document written anew get no mouseout.
MouseOver(e) ==
  /\ ~raised
  /\ listening
  /\ e \in Targets
  /\ hovered = NoNode
  /\ LET O == [OverlayState EXCEPT !.hovered = e]
         ignored ==
           \/ ~isSelectionMode
           \/ (viewer # "part_003" /\ isPressingRef)
           \/ tagName(e) \in {"HTML", "BODY"}
           \/ classListContains(doc.classList[e], "selected-element")
           \/ (viewer = "part_003"
               /\ classListContains(doc.classList[e], "preview-element"))
     IN InstallOverlay(IF ignored THEN O
                       ELSE [O EXCEPT !.doc.classList[e] =
                               classListAdd(@, "highlight-target")])

\* handleMouseOut
MouseOut(e) ==
  /\ ~raised
  /\ listening
  /\ e \in Targets
  /\ hovered = e
  /\ LET O == [OverlayState EXCEPT !.hovered = NoNode]
         ignored ==
           \/ ~isSelectionMode
           \/ (viewer # "part_003" /\ isPressingRef)
           \/ classListContains(doc.classList[e], "selected-element")
           \/ (viewer = "part_003"
               /\ classListContains(doc.classList[e], "preview-element"))
     IN InstallOverlay(IF ignored THEN O
                       ELSE [O EXCEPT !.doc.classList[e] =
                               classListRemove(@, "highlight-target")])

\* selectElement of part_002 (handleElementSelect of part_004) for an element
\* of the iframe's document, with isMultiSelect false: the markers move, the
\* selector is derived and handed to onElementSelect.
selectElement(O, element, byTouch) ==
  IF tagName(element) \in {"HTML", "BODY"}
  THEN O
  ELSE LET cleared == RemoveMarkers(O.doc, {"highlight-target", "selected-element"})
           marked == [cleared EXCEPT !.classList[element] =
                        classListAdd(@, "selected-element")]
       IN Commit([O EXCEPT !.doc = marked], element, TRUE,
                 generateSelectorDOMViewer(marked, element), byTouch)

\* selectElement for the element of the host page a touch handler got from
\* document.elementFromPoint.
selectHostElement(O) ==
  Commit([O EXCEPT !.doc = RemoveMarkers(@, {"highlight-target", "selected-element"}),
                   !.hostClassList = (@ \ {"highlight-target"}) \cup {"selected-element"}],
         HostNode, TRUE, HostSelector(viewer), TRUE)

\* handleClick of the previewing DOMViewer: the element becomes the preview.
previewClick(O, element) ==
  IF tagName(element) \in {"HTML", "BODY"}
  THEN O
  ELSE [O EXCEPT !.doc.classList[element] = classListRemove(@, "highlight-target"),
                 !.previewElement = [node |-> element, live |-> TRUE,
                                     id |-> "", classList |-> <<>>]]

\* handleClick
handleClick(O, element, byTouch) ==
  IF ~O.isSelectionMode THEN O
  ELSE IF viewer = "part_003" THEN previewClick(O, element)
       ELSE selectElement(O, element, byTouch)

\* The list the model lets grow to MaxSelected records.
Bounded(O) == Len(O.selectedSelectors) <= MaxSelected

\* The dispatch of a click on an element of the iframe's document: the capture
\* listeners of the document, then the listeners the page has on its elements
\* (its scripts run when the iframe's sandbox has allow-scripts), then the
\* bubble listeners of the document.  handleClick is a capture listener of
\* the DOMViewers with touch handlers and a bubble listener of the previewing
\* DOMViewer; it prevents the default action and stops the propagation when
\* selection mode is on.
Capturing == viewer # "part_003"
AllowScripts == viewer # "part_002"

ClickFate(O) ==
  LET contained == O.listening /\ O.isSelectionMode
  IN [delivered |-> O.listening,
      prevented |-> contained,
      stopped |-> contained,
      observed |-> AllowScripts /\ ~(contained /\ Capturing)]

Click(e) ==
  /\ ~raised
  /\ ClickFate(OverlayState).delivered
  /\ e \in Targets
  /\ LET O == OverlayState
         after == Rendered(O, handleClick(O, e, FALSE))
     IN Bounded(after) /\ InstallOverlay(after)

\* The click listener under a mouse: the click event is dispatched for the
\* element the pointer is over.
PointerClick(e) == hovered = e /\ Click(e)

\* handleConfirmSelection of the previewing DOMViewer; the button is there
\* while previewElement is set.
ConfirmSelection ==
  /\ ~raised
  /\ viewer = "part_003"
  /\ previewElement.node # NoNode
  /\ LET O == OverlayState
         ref == previewElement
         d == IF ref.live THEN doc
              ELSE [doc EXCEPT !.id[ref.node] = ref.id,
                               !.classList[ref.node] = ref.classList]
         committed == Commit(O, ref.node, ref.live,
                             generateSelectorPreview(d, ref.node), FALSE)
         after == Rendered(O, [committed EXCEPT !.previewElement = NoPreview])
     IN Bounded(after) /\ InstallOverlay(after)

\* handleTouchStart; target is the result of document.elementFromPoint.  A
\* timer started while the one before is pending leaves that one running:
\* pressTimerRef holds the new timer only.
TouchStart(e, target) ==
  /\ ~raised
  /\ listening
  /\ viewer # "part_003"
  /\ e \in Targets
  /\ pressTimer /\ isSelectionMode /\ target # NoNode
       => leakedPressTimers < MaxLeakedTimers
  /\ LET O == [OverlayState EXCEPT
                 !.gesture = [touched |-> e, down |-> TRUE,
                              timed |-> isSelectionMode /\ target # NoNode,
                              moved |-> FALSE, commits |-> 0, other |-> FALSE]]
         pressing == [O EXCEPT !.isPressingRef = TRUE]
     IN InstallOverlay(
          IF ~isSelectionMode THEN O
          ELSE IF target = NoNode THEN pressing
          ELSE [pressing EXCEPT
                  !.pressTargetRef = target,
                  !.hostClassList = IF "selected-element" \in @ THEN @
                                    ELSE @ \cup {"highlight-target"},
                  !.leakedPressTimers = IF O.pressTimer THEN @ + 1 ELSE @,
                  !.pressTimer = TRUE])

\* handleTouchMove of part_002; part_004 has no listener for touchmove.
TouchMove(target) ==
  /\ ~raised
  /\ listening
  /\ viewer # "part_003"
  /\ gesture.down
  /\ LET O == [OverlayState EXCEPT !.gesture.moved = TRUE]
         left == [O EXCEPT !.hostClassList =
                    IF O.pressTargetRef # NoNode /\ "selected-element" \notin @
                    THEN @ \ {"highlight-target"} ELSE @]
     IN InstallOverlay(
          IF viewer = "part_004" \/ ~isSelectionMode \/ ~isPressingRef THEN O
          ELSE IF target = NoNode THEN left
          ELSE [left EXCEPT
                  !.pressTargetRef = target,
                  !.hostClassList = IF "selected-element" \in @ THEN @
                                    ELSE @ \cup {"highlight-target"}])

\* handleTouchEnd of part_002.  part_004 has no listener for touchend, and
\* its handleTouchStart does not prevent the default action of the touch: a
\* touch released without movement before the timer fired is followed by
\* the click of the touched element.
TouchEnd ==
  /\ ~raised
  /\ listening
  /\ viewer # "part_003"
  /\ gesture.down
  /\ LET O == [OverlayState EXCEPT !.gesture.down = FALSE]
         after ==
           IF viewer = "part_004"
           THEN IF ~gesture.moved /\ pressTimer
                THEN Rendered(O, handleClick(O, gesture.touched, TRUE))
                ELSE O
           ELSE IF ~isSelectionMode THEN O
           ELSE [O EXCEPT
                   !.isPressingRef = FALSE,
                   !.pressTimer = FALSE,
                   !.hostClassList =
                     IF O.pressTargetRef # NoNode /\ "selected-element" \notin @
                     THEN @ \ {"highlight-target"} ELSE @,
                   !.pressTargetRef = NoNode]
     IN Bounded(after) /\ InstallOverlay(after)

\* The callback of the timer of handleTouchStart, 500 ms after the touch
\* started: the timer pressTimerRef holds.
HoldTimer ==
  /\ ~raised
  /\ pressTimer
  /\ LET O == [OverlayState EXCEPT !.pressTimer = FALSE]
         after == IF pressTargetRef = HostNode
                  THEN Rendered(O, selectHostElement(O))
                  ELSE O
     IN Bounded(after) /\ InstallOverlay(after)

\* The callback of a timer pressTimerRef no longer holds.
LeakedHoldTimer ==
  /\ ~raised
  /\ leakedPressTimers > 0
  /\ LET O == [OverlayState EXCEPT !.leakedPressTimers = @ - 1]
         after == IF pressTargetRef = HostNode
                  THEN Rendered(O, selectHostElement(O))
                  ELSE O
     IN Bounded(after) /\ InstallOverlay(after)

\* The Sheet of Home.tsx opens: ElementSelector is mounted with an empty
\* list and its effect runs for the selectedElement of Home.
OpenSheet ==
  /\ ~raised
  /\ home = "Home"
  /\ ~sheetOpen
  /\ InstallOverlay(ListEffect([OverlayState EXCEPT !.sheetOpen = TRUE,
                                                    !.selectedSelectors = <<>>]))

\* The Sheet closes: ElementSelector is unmounted and its state is gone.
CloseSheet ==
  /\ ~raised
  /\ home = "Home"
  /\ sheetOpen
  /\ InstallOverlay([OverlayState EXCEPT !.sheetOpen = FALSE,
                                         !.selectedSelectors = <<>>])

(***************************************************************************)
(* SelectionList: the handlers of ElementSelector on selectedSelectors.    *)
(***************************************************************************)
\* The attribute names the operator toggles or types: the text, and an
\* attribute no element of the model has.
AttributeNames == {"text", "href"}

\* element.getAttribute(name) || '': the elements of the model have no
\* attribute but id (and class).
getAttribute(d, element, name) ==
  IF name = "id" /\ d.id[element] # "" THEN <<d.id[element]>> ELSE <<>>

\* s.attributes.includes(attribute)
includes(list, x) == \E i \in 1..Len(list) : list[i] = x

\* newData[attribute] = value; delete newData[attribute]
SetKey(data, key, value) ==
  [k \in DOMAIN data \cup {key} |-> IF k = key THEN value ELSE data[k]]
DeleteKey(data, key) == [k \in DOMAIN data \ {key} |-> data[k]]

\* prev.filter(s => s.selector !== selector)
RECURSIVE filterSelector(_, _)
filterSelector(list, selector) ==
  IF list = <<>> THEN <<>>
  ELSE IF Head(list).selector = selector
       THEN filterSelector(Tail(list), selector)
       ELSE <<Head(list)>> \o filterSelector(Tail(list), selector)

\* onClick of the remove button of a record
RemoveSelector(i) ==
  /\ ~raised
  /\ sheetOpen
  /\ i \in 1..Len(selectedSelectors)
  /\ InstallOverlay([OverlayState EXCEPT !.selectedSelectors =
                       filterSelector(@, selectedSelectors[i].selector)])

\* The record after handleAttributeToggle: unchanged when its element is no
\* longer found; or else the attribute leaves or joins the attributes, and
\* its value the extracted data.
Toggled(d, s, attribute) ==
  LET found == querySelector(d, s.selector)
      value == IF attribute = "text" THEN textContent(d, found.element)
               ELSE getAttribute(d, found.element, attribute)
      newAttributes == IF includes(s.attributes, attribute)
                       THEN filter(s.attributes, {attribute})
                       ELSE Append(s.attributes, attribute)
      newData == IF includes(newAttributes, attribute)
                 THEN SetKey(s.extractedData, attribute, value)
                 ELSE DeleteKey(s.extractedData, attribute)
  IN IF found.threw \/ found.element = NoNode
     THEN s
     ELSE [s EXCEPT !.attributes = newAttributes, !.extractedData = newData]

\* handleAttributeToggle for the record the dialog is open for
\* (ElementSelector.tsx) or the record of the clicked badge (part_006)
AttributeToggle(i, attribute) ==
  /\ ~raised
  /\ sheetOpen
  /\ i \in 1..Len(selectedSelectors)
  /\ ~includes(selectedSelectors[i].attributes, attribute)
       => Len(selectedSelectors[i].attributes) < MaxAttributes
  /\ InstallOverlay(
       [OverlayState EXCEPT !.selectedSelectors =
          [k \in 1..Len(selectedSelectors) |->
             IF selectedSelectors[k].selector = selectedSelectors[i].selector
             THEN Toggled(doc, selectedSelectors[k], attribute)
             ELSE selectedSelectors[k]]])

\* handleAddCustomAttribute of ElementSelector.tsx for the record the dialog
\* is open for: the typed name is appended.
AddCustomAttribute(i, customAttribute) ==
  /\ ~raised
  /\ sheetOpen
  /\ panel = "ElementSelector"
  /\ i \in 1..Len(selectedSelectors)
  /\ Len(selectedSelectors[i].attributes) < MaxAttributes
  /\ Len(selectedSelectors[i].availableAttributes) < MaxAttributes
  /\ LET currentSelector == selectedSelectors[i].selector
         found == querySelector(doc, currentSelector)
         value == getAttribute(doc, found.element, customAttribute)
     IN InstallOverlay(
          IF found.threw \/ found.element = NoNode
          THEN OverlayState
          ELSE [OverlayState EXCEPT !.selectedSelectors =
                  [k \in 1..Len(selectedSelectors) |->
                     IF selectedSelectors[k].selector = currentSelector
                     THEN [selectedSelectors[k] EXCEPT
                             !.attributes = Append(@, customAttribute),
                             !.extractedData = SetKey(@, customAttribute, value),
                             !.availableAttributes = Append(@, customAttribute)]
                     ELSE selectedSelectors[k]]])

(***************************************************************************)
(* Spec: the hub and raw clients.  SpecChannel: one viewer's channel, the  *)
(* hub and one other client.                                               *)
(***************************************************************************)
Init == InitRealtime({}) /\ InitDom

Next ==
  \/ PeerConnect(MaxSockets)
  \/ \E s \in Sockets, text \in HubTexts : PeerSend(s, text)
  \/ \E s \in Sockets : HubAccept(s)
  \/ \E s \in Sockets : HubClosing(s)
  \/ \E s \in Sockets : HubClosed(s)
  \/ \E s \in Sockets : HubMessage(s)

Spec == Init /\ [][Next]_vars

InitChannel == InitRealtime({"v1"}) /\ InitDom

NextChannel ==
  \/ \E v \in Viewers : Mount(v)
  \/ \E v \in Viewers : Unmount(v)
  \/ \E v \in Viewers : TimerFire(v)
  \/ \E v \in Viewers, obj \in SendObjects : Send(v, obj)
  \/ \E v \in Viewers : Subscribe(v)
  \/ \E s \in Sockets : ClientOpen(s)
  \/ \E s \in Sockets, err \in BOOLEAN : ClientClosed(s, err)
  \/ \E s \in Sockets : ClientMessage(s)
  \/ PeerConnect(1)
  \/ \E s \in Sockets, text \in PeerTexts : PeerSend(s, text)
  \/ \E s \in Sockets : HubAccept(s)
  \/ \E s \in Sockets : HubClosed(s)
  \/ \E s \in Sockets : HubMessage(s)

SpecChannel == InitChannel /\ [][NextChannel]_vars

\* The life cycle of one viewer's channel alone, with the scheduling the event
\* loops guarantee: a pending timer fires, a connection attempt is answered
\* (accepted and opened, or closed) and a closing socket closes.
NextReconnect ==
  \/ \E v \in Viewers : Mount(v)
  \/ \E v \in Viewers : Unmount(v)
  \/ \E v \in Viewers : TimerFire(v)
  \/ \E v \in Viewers, obj \in SendObjects : Send(v, obj)
  \/ \E s \in Sockets : ClientOpen(s)
  \/ \E s \in Sockets, err \in BOOLEAN : ClientClosed(s, err)
  \/ \E s \in Sockets : HubAccept(s)
  \/ \E s \in Sockets : HubClosed(s)

FairReconnect ==
  /\ \A v \in Viewers : WF_vars(Mount(v))
  /\ \A v \in Viewers : WF_vars(TimerFire(v))
  /\ \A s \in Sockets : WF_vars(HubAccept(s))
  /\ \A s \in Sockets : WF_vars(ClientOpen(s))
  /\ \A s \in Sockets : WF_vars(\E err \in BOOLEAN : ClientClosed(s, err))

SpecReconnect == InitChannel /\ [][NextReconnect]_vars /\ FairReconnect

\* The generateSelector functions applied to the elements of any document.
InitDerive ==
  /\ InitRealtime({})
  /\ doc \in Documents
  /\ derived = NoDerivation
  /\ InitOverlay({"part_002"}, {"Home"}, {"ElementSelector"})

NextDerive ==
  \/ \E e \in Elements : DeriveDOMViewer(e)
  \/ \E e \in Elements : DerivePreview(e)
  \/ \E e \in Elements : DeriveElementSelector(e)
  \/ \E e \in Elements : DeriveDOMViewerTsx(e)

SpecDerive == InitDerive /\ [][NextDerive]_vars

(***************************************************************************)
(* Saving: the ElementSelector components that post the selection to       *)
(* POST /api/selectors (panel "DOMViewer.tsx": the list of selectors of    *)
(* DOMViewer.tsx lines 244-404; panel "part_006/3": the one selector of    *)
(* part_006 lines 563-743), the route, the insert schema and MemStorage.   *)
(***************************************************************************)
MaxSaves == 2

SavePanels == {"DOMViewer.tsx", "part_006/3"}
SaveSelectors == {<<"#", "app">>, <<"div">>}
SaveAttributeNames == {"text", "href"}
\* DEFAULT_URL of Home
Url == "https://example.com"

\* Home's handleElementSelect sets selectedElement; the effect of the saving
\* ElementSelector of DOMViewer.tsx appends a selector the list does not
\* include.
ElementSelected(selector) ==
  /\ panel \in SavePanels
  /\ selector # selectedElement
  /\ InstallOverlay(
       [OverlayState EXCEPT
          !.selectedElement = selector,
          !.panelSelectors =
            IF panel = "DOMViewer.tsx" /\ ~includes(@, selector)
            THEN Append(@, selector) ELSE @])

\* The panel renders its controls when there is a selection.
PanelRendered ==
  IF panel = "DOMViewer.tsx" THEN panelSelectors # <<>>
  ELSE selectedElement # NoSelector

handleAttributeSelect(attribute) ==
  /\ panel \in SavePanels
  /\ PanelRendered
  /\ ~includes(selectedAttributes, attribute)
  /\ InstallOverlay([OverlayState EXCEPT
                       !.selectedAttributes = Append(@, attribute)])

handleRemoveAttribute(attribute) ==
  /\ panel \in SavePanels
  /\ PanelRendered
  /\ includes(selectedAttributes, attribute)
  /\ InstallOverlay([OverlayState EXCEPT
                       !.selectedAttributes = filter(@, {attribute})])

handleRemoveSelector(selector) ==
  /\ panel = "DOMViewer.tsx"
  /\ includes(panelSelectors, selector)
  /\ InstallOverlay([OverlayState EXCEPT
                       !.panelSelectors = filter(@, {selector})])

\* The body of the request: { name: "Selection", ...data }.  keys are the keys
\* the body has; a key it has not holds the empty value.
SaveBody(O) ==
  IF panel = "DOMViewer.tsx"
  THEN [keys |-> {"name", "selectors", "attributes", "url"},
        name |-> "Selection", selector |-> <<>>, selectors |-> O.panelSelectors,
        attributes |-> O.selectedAttributes, url |-> Url]
  ELSE [keys |-> {"name", "selector", "attributes", "url"},
        name |-> "Selection", selector |-> O.selectedElement, selectors |-> <<>>,
        attributes |-> O.selectedAttributes, url |-> Url]

\* handleSave: mutation.mutate when there is a selection, a url and an
\* attribute.
handleSave ==
  /\ panel \in SavePanels
  /\ PanelRendered
  /\ selectedAttributes # <<>>
  /\ saves < MaxSaves
  /\ InstallOverlay(
       [OverlayState EXCEPT
          !.saves = @ + 1,
          !.requests =
            Append(@, [body |-> SaveBody(OverlayState),
                       sent |-> [selectors |-> panelSelectors,
                                 attributes |-> selectedAttributes],
                       status |-> 0, stored |-> 0])])

\* insertSelectorSchema.safeParse(body).success: name, selector, attributes
\* and url are required, parentSelector is optional and other keys are
\* stripped.  The values of the keys a client sends have the types of the
\* schema.
safeParse(body) == {"name", "selector", "attributes", "url"} \subseteq body.keys

\* storage.createSelector(result.data)
createSelector(O, data) ==
  [O EXCEPT !.currentSelectorId = @ + 1,
            !.selectors = Append(@, [id |-> O.currentSelectorId,
                                     name |-> data.name,
                                     selector |-> data.selector,
                                     attributes |-> data.attributes,
                                     url |-> data.url])]

\* app.post("/api/selectors"): status 400 when the body fails the schema, or
\* else the record is stored and sent back.
PostSelectors(i) ==
  /\ i \in 1..Len(requests)
  /\ requests[i].status = 0
  /\ LET O == OverlayState
         body == requests[i].body
     IN InstallOverlay(
          IF ~safeParse(body)
          THEN [O EXCEPT !.requests[i].status = 400]
          ELSE [createSelector(O, body) EXCEPT
                  !.requests[i].status = 200,
                  !.requests[i].stored = O.currentSelectorId])

\* onSuccess of the mutation
onSuccess(O) ==
  [O EXCEPT !.toast = "Success",
            !.selectedAttributes = <<>>,
            !.panelSelectors = <<>>]

\* A faulty variant of onError: the lists are cleared as after a success.
onErrorClears(O) ==
  [O EXCEPT !.toast = "Error",
            !.selectedAttributes = <<>>,
            !.panelSelectors = <<>>]

\* onError of the mutation
onError(O) == [O EXCEPT !.toast = "Error"]

\* requests.splice(i, 1)
RemoveAt(list, i) == [k \in 1..(Len(list) - 1) |-> IF k < i THEN list[k] ELSE list[k + 1]]

\* apiRequest of lib/queryClient: the promise resolves for a response with an
\* ok status and rejects for any other.
apiRequest(status) == status \in 200..299

\* The response arrives at the client: the mutation settles.
SaveSettled(i) ==
  /\ i \in 1..Len(requests)
  /\ requests[i].status # 0
  /\ LET O == [OverlayState EXCEPT !.requests = RemoveAt(@, i)]
     IN InstallOverlay(IF apiRequest(requests[i].status)
                       THEN onSuccess(O) ELSE onError(O))

\* fetch rejects: the request or its response is lost on the way.
NetworkFailure(i) ==
  /\ i \in 1..Len(requests)
  /\ InstallOverlay(onError([OverlayState EXCEPT !.requests = RemoveAt(@, i)]))

\* The overlay under the mouse: the DOMViewers with touch handlers under every
\* Home, the previewing DOMViewer under the Home of Home.tsx, and the list of
\* ElementSelector.tsx.  A mouse click is on the element the pointer is over.
InitPointer ==
  /\ InitRealtime({})
  /\ doc = BlankDoc
  /\ derived = NoDerivation
  /\ \/ InitOverlay({"part_002", "part_004"}, {"Home", "part_001"},
                    {"ElementSelector"})
     \/ InitOverlay({"part_003"}, {"Home"}, {"ElementSelector"})

NextPointer ==
  \/ \E c \in Contents : LoadContent(c)
  \/ ToggleSelectionMode
  \/ \E e \in Elements : MouseOver(e)
  \/ \E e \in Elements : MouseOut(e)
  \/ \E e \in Elements : PointerClick(e)
  \/ ConfirmSelection
  \/ OpenSheet
  \/ CloseSheet

SpecPointer == InitPointer /\ [][NextPointer]_vars

\* The overlay of a device with mouse and touch screen: the DOMViewer of
\* part_002 under the Home of Home.tsx.
InitHover ==
  /\ InitRealtime({})
  /\ doc = BlankDoc
  /\ derived = NoDerivation
  /\ InitOverlay({"part_002"}, {"Home"}, {"ElementSelector"})

NextHover ==
  \/ \E c \in Contents : LoadContent(c)
  \/ ToggleSelectionMode
  \/ \E e \in Elements : MouseOver(e)
  \/ \E e \in Elements : MouseOut(e)
  \/ \E e \in Elements : PointerClick(e)
  \/ \E e \in Elements, target \in {NoNode, HostNode} : TouchStart(e, target)
  \/ \E target \in {NoNode, HostNode} : TouchMove(target)
  \/ TouchEnd
  \/ HoldTimer
  \/ LeakedHoldTimer

SpecHover == InitHover /\ [][NextHover]_vars

\* Saving: each saving ElementSelector, the route and the store.
InitSave ==
  /\ InitRealtime({})
  /\ doc = BlankDoc
  /\ derived = NoDerivation
  /\ InitOverlay({"part_002"}, {"Home"}, SavePanels)

NextSave ==
  \/ \E selector \in SaveSelectors : ElementSelected(selector)
  \/ \E a \in SaveAttributeNames : handleAttributeSelect(a)
  \/ \E a \in SaveAttributeNames : handleRemoveAttribute(a)
  \/ \E selector \in SaveSelectors : handleRemoveSelector(selector)
  \/ handleSave
  \/ \E i \in 1..MaxSaves : PostSelectors(i)
  \/ \E i \in 1..MaxSaves : SaveSettled(i)
  \/ \E i \in 1..MaxSaves : NetworkFailure(i)

SpecSave == InitSave /\ [][NextSave]_vars

\* The overlay under touches: the DOMViewers with touch handlers.
InitTouch ==
  /\ InitRealtime({})
  /\ doc = BlankDoc
  /\ derived = NoDerivation
  /\ InitOverlay({"part_002", "part_004"}, {"Home", "part_001"}, {"ElementSelector"})

NextTouch ==
  \/ \E c \in Contents : LoadContent(c)
  \/ ToggleSelectionMode
  \/ \E e \in Elements, target \in {NoNode, HostNode} : TouchStart(e, target)
  \/ \E target \in {NoNode, HostNode} : TouchMove(target)
  \/ TouchEnd
  \/ HoldTimer
  \/ LeakedHoldTimer

SpecTouch == InitTouch /\ [][NextTouch]_vars

\* The selection list: commits by clicks in the DOMViewer of part_002, and
\* the handlers of each ElementSelector.
\* The page loaded under the list.
ListContents == {1}

InitList ==
  /\ InitRealtime({})
  /\ doc = BlankDoc
  /\ derived = NoDerivation
  /\ InitOverlay({"part_002"}, {"part_001"}, {"ElementSelector", "part_006"})

NextList ==
  \/ \E c \in ListContents : LoadContent(c)
  \/ ToggleSelectionMode
  \/ \E e \in Elements : Click(e)
  \/ \E i \in 1..MaxSelected : RemoveSelector(i)
  \/ \E i \in 1..MaxSelected, a \in AttributeNames : AttributeToggle(i, a)
  \/ \E i \in 1..MaxSelected, a \in AttributeNames : AddCustomAttribute(i, a)

SpecList == InitList /\ [][NextList]_vars

\* The overlay when the clicks and the touches are on the BODY of the page:
\* the DOMViewers with touch handlers under the Home of Home.tsx.  The mouse
\* is over the elements and the BODY.
RootTargets == Elements \cup {BodyNode}

InitRoot ==
  /\ InitRealtime({})
  /\ doc = BlankDoc
  /\ derived = NoDerivation
  /\ InitOverlay({"part_002", "part_004"}, {"Home"}, {"ElementSelector"})

NextRoot ==
  \/ \E c \in ListContents : LoadContent(c)
  \/ ToggleSelectionMode
  \/ \E e \in RootTargets : MouseOver(e)
  \/ \E e \in RootTargets : MouseOut(e)
  \/ \E e \in RootTargets : PointerClick(e)
  \/ \E target \in {NoNode, HostNode} : TouchStart(BodyNode, target)
  \/ \E target \in {NoNode, HostNode} : TouchMove(target)
  \/ TouchEnd
  \/ HoldTimer
  \/ LeakedHoldTimer

SpecRoot == InitRoot /\ [][NextRoot]_vars

\* A viewer's page: its channel to the hub, and the overlay committing by
\* clicks.
InitHandoff ==
  /\ InitRealtime({"v1"})
  /\ doc = BlankDoc
  /\ derived = NoDerivation
  /\ InitOverlay({"part_002"}, {"Home", "part_001"}, {"ElementSelector"})

NextHandoff ==
  \/ \E v \in Viewers : Mount(v)
  \/ \E s \in Sockets : ClientOpen(s)
  \/ \E s \in Sockets : HubAccept(s)
  \/ \E v \in Viewers, obj \in SendObjects : Send(v, obj)
  \/ \E c \in Contents : LoadContent(c)
  \/ ToggleSelectionMode
  \/ \E e \in Elements : Click(e)

SpecHandoff == InitHandoff /\ [][NextHandoff]_vars


(***************************************************************************)
(* Properties of the BroadcastHub.                                         *)
(***************************************************************************)
\* The text is JSON of an object whose type is SELECT_ELEMENT or HIGHLIGHT_ELEMENT.
IsRelayable(text) ==
  /\ text.k = "obj"
  /\ "type" \in DOMAIN text.o
  /\ text.o.type \in {"SELECT_ELEMENT", "HIGHLIGHT_ELEMENT"}

\* The hub's 'message' handler has just handled the next frame received on ws.
HubHandled(ws) == hubIdx'[ws] = hubIdx[ws] + 1

\* The frame the hub handles next on ws.
NextInbound(ws) == toHub[ws][hubIdx[ws] + 1]

\* The frames written to connection c are relays of frames received on ws.
RelaysFrom(ws, c) == {i \in 1..Len(toClient[c]) : toClient[c][i].s = ws}

\* C1: no frame the hub has written on a connection stems from a frame it
\* received on that same connection.
NoEcho ==
  \A c \in Sockets : RelaysFrom(c, c) = {}

\* A frame received on a connection that is OPEN at the hub was relayed to
\* another connection, and nothing was written on the sender's.
NoEchoWitness ==
  \E ws \in Sockets, c \in Sockets :
    /\ c # ws
    /\ hState[ws] = "OPEN"
    /\ RelaysFrom(ws, c) # {}
    /\ toClient[ws] = <<>>

\* C2: when the hub handles a SELECT_ELEMENT or HIGHLIGHT_ELEMENT frame received
\* on ws, each other connection that is OPEN is written exactly one more frame
\* (a relay of that frame) and every connection that is not OPEN is written nothing.
FanOut ==
  [][\A ws \in Sockets :
       (HubHandled(ws) /\ IsRelayable(NextInbound(ws).p)) =>
         \A c \in Sockets \ {ws} :
           IF hState[c] = "OPEN"
           THEN /\ Len(toClient'[c]) = Len(toClient[c]) + 1
                /\ SubSeq(toClient'[c], 1, Len(toClient[c])) = toClient[c]
                /\ toClient'[c][Len(toClient'[c])].s = ws
                /\ toClient'[c][Len(toClient'[c])].n = NextInbound(ws).n
           ELSE toClient'[c] = toClient[c]]_vars

\* One frame was handled while one other connection had a relay written and a
\* third one, in wss.clients but CLOSING, had nothing written.
FanOutWitness ==
  \E ws \in Sockets, c1 \in Sockets, c2 \in Sockets :
    /\ ws # c1 /\ ws # c2 /\ c1 # c2
    /\ hubIdx[ws] = 1
    /\ IsRelayable(toHub[ws][1].p)
    /\ RelaysFrom(ws, c1) # {}
    /\ hState[c2] = "CLOSING"
    /\ toClient[c2] = <<>>

\* The frame received by the hub that the relayed frame r stems from.
InboundOf(r) ==
  LET i == CHOOSE i \in 1..Len(toHub[r.s]) : toHub[r.s][i].n = r.n
  IN toHub[r.s][i]

RelayedType(type) ==
  IF type = "SELECT_ELEMENT" THEN "ELEMENT_SELECTED" ELSE "ELEMENT_HIGHLIGHTED"

\* C3: every relayed frame has the past-tense type of the inbound frame it
\* stems from and the same selector, attributes and data properties.
RelayPayload ==
  \A c \in Sockets : \A i \in 1..Len(toClient[c]) :
    LET out == JSONparse(toClient[c][i].p).val
        inb == JSONparse(InboundOf(toClient[c][i]).p).val
    IN /\ out.type = RelayedType(inb.type)
       /\ \A f \in {"selector", "attributes", "data"} :
            /\ (f \in DOMAIN out) = (f \in DOMAIN inb)
            /\ f \in DOMAIN inb => out[f] = inb[f]

MalformedContained ==
  [][\A ws \in Sockets :
       (HubHandled(ws) /\ ~IsRelayable(NextInbound(ws).p)) =>
         /\ toClient' = toClient
         /\ hState' = hState
         /\ toHub' = toHub]_vars

\* A sender's first frame was malformed, its connection is still OPEN and its
\* second, valid frame was relayed.
MalformedContainedWitness ==
  \E ws \in Sockets : \E c \in Sockets \ {ws} :
    /\ hubIdx[ws] = 2
    /\ ~IsRelayable(toHub[ws][1].p)
    /\ IsRelayable(toHub[ws][2].p)
    /\ hState[ws] = "OPEN"
    /\ \E i \in RelaysFrom(ws, c) : toClient[c][i].n = toHub[ws][2].n

(***************************************************************************)
(* Properties of the RealtimeChannel.                                      *)
(***************************************************************************)
\* The frames of one send call that were written on some socket.
Written(c, n) ==
  {<<s, i>> \in Sockets \X (1..MaxSends + 1) :
     i <= Len(toHub[s]) /\ toHub[s][i].c = c /\ toHub[s][i].n = n}

\* Viewer v has just made a send call while its socket was absent or not OPEN.
SentWhileDisconnected(v) ==
  /\ seq'[v] = seq[v] + 1
  /\ ~CurrentIsOpen(ChannelState, v)

\* C5: a send call made while the socket is absent or not OPEN constructs a
\* new socket (a connect attempt) and writes nothing, and the message of such a
\* call is never written on any socket afterwards.
SendWhileDisconnectedDrops ==
  /\ [][\A v \in Viewers :
          SentWhileDisconnected(v) =>
            /\ nSock' = nSock + 1
            /\ wsRef'[v] = nSock'
            /\ cState'[nSock'] = "CONNECTING"
            /\ toHub' = toHub]_vars
  /\ [](\A d \in dropped : Written(d[1], d[2]) = {})

\* A send call was dropped, the channel connected again afterwards and a later
\* send call was written on the new socket, which holds that frame only.
SendWhileDisconnectedDropsWitness ==
  \E v \in Viewers :
    /\ <<v, 1>> \in dropped
    /\ CurrentIsOpen(ChannelState, v)
    /\ Len(toHub[wsRef[v]]) = 1
    /\ toHub[wsRef[v]][1].n = 2

\* C6: a mounted channel whose current socket is not OPEN eventually has an
\* OPEN current socket again (unless it is unmounted, or the model has no
\* socket left to construct), whatever closed or failed before.
ReconnectsEventually ==
  \A v \in Viewers :
    (phase[v] = "mounted" /\ ~CurrentIsOpen(ChannelState, v))
      ~> (\/ CurrentIsOpen(ChannelState, v)
          \/ phase[v] # "mounted"
          \/ nSock = MaxSockets)

\* The text is JSON of an object that has the required fields.
WellFormed(text) ==
  /\ text.k = "obj"
  /\ {"type", "selector"} \subseteq DOMAIN text.o

\* The frames passed to the callback of viewer v.
Handled(v) == {handled[v][i] : i \in 1..Len(handled[v])}

\* C7: once subscribe has registered the handler on a socket of the channel and
\* that socket has closed, every well-formed frame dispatched on a socket the
\* channel constructed later has been passed to the handler.
HandlerSurvivesReconnect ==
  \A s \in Sockets, t \in Sockets :
    (/\ owner[s] \in Viewers /\ owner[t] = owner[s]
     /\ s < t
     /\ onmessage[s] /\ cState[s] = "CLOSED" /\ hState[s] = "CLOSED"
     /\ wsRef[owner[t]] = t) =>
      \A i \in 1..cliIdx[t] :
        WellFormed(toClient[t][i].p) => toClient[t][i] \in Handled(owner[t])

\* C8: no payload that is not JSON of an object with the required fields type
\* and selector is passed to the handler.
InboundValidated ==
  \A v \in Viewers : \A f \in Handled(v) : WellFormed(f.p)

(***************************************************************************)
(* Properties of the SelectorDeriver.                                      *)
(***************************************************************************)
\* C10: the selector a generateSelector function returns for an element with
\* a non-empty id is "#" followed by the id.
IdRule ==
  (derived.fn # "none" /\ doc.id[derived.element] # "") =>
    derived.selector = <<"#", doc.id[derived.element]>>

\* The marker classes of the overlays: hover/highlight, preview, selected and
\* the selectable class of BODY.
OverlayMarkers ==
  {"highlight-target", "highlighted", "preview-element", "selected-element", "selectable"}

\* The class names in a selector: the tokens that follow a ".".
ClassNamesIn(selector) ==
  {selector[i] : i \in {j \in 2..Len(selector) : selector[j - 1] = "."}}

\* C11: the selector a generateSelector function returns holds no marker class
\* of the overlays as a class name, whatever marker classes the element and its
\* ancestors carry.
MarkersNeverLeak ==
  derived.fn # "none" => ClassNamesIn(derived.selector) \cap OverlayMarkers = {}

\* A call of onElementSelect happens in this step.
CommitStep == commitFlip' # commitFlip

ToggleOffStep == isSelectionMode /\ ~isSelectionMode' /\ ~CommitStep

\* C13: immediately after the selection mode is toggled off no element of the
\* document carries the hover marker and no hold timer is pending.
ToggleOffCleanup ==
  [][ToggleOffStep
       => /\ \A n \in Nodes : IsAttached(doc', n)
                => ~classListContains(doc'.classList[n], "highlight-target")
          /\ ~pressTimer'
          /\ leakedPressTimers' = 0]_vars

\* C14: onElementSelect is called only while the selection mode is on; while
\* it is off no event (a release, a hold timer, a click, a confirm) commits.
NoCommitWhileIdle == [][CommitStep => isSelectionMode]_vars

\* Home gets the content of another page in this step.
LoadStep == domContent' # domContent

\* The last commit was made for an element that was in its document.
NoStaleCommit == lastCommit.made => lastCommit.live

\* C15: loading a new page leaves the overlay Idle (selection mode off, no
\* previewed candidate, no hold timer pending), and no commit is made for an
\* element of a document that has been replaced.
ReloadSafety ==
  /\ [][LoadStep => /\ ~isSelectionMode'
                     /\ previewElement'.node = NoNode
                     /\ ~pressTimer'
                     /\ leakedPressTimers' = 0]_vars
  /\ []NoStaleCommit

\* C16: the selection mode is still on after every commit; it turns off only
\* by the operator's toggle.
MultiPick ==
  [][isSelectionMode /\ ~isSelectionMode' => ToggleOffStep]_vars

\* C17: every commit made while the viewer's channel is open writes a frame
\* (the SELECT message with the derived selector) to the viewer's socket.
CommitHandOff ==
  [][CommitStep /\ CurrentIsOpen(ChannelState, "v1")
       => \E s \in Sockets : Len(toHub'[s]) > Len(toHub[s])]_vars

\* The selector matches an element of the document.
Resolves(d, selector) ==
  SelectorParses(selector) /\ querySelectorAll(d, selector) # {}

\* The effect of ElementSelector runs in this step: selectedElement changed
\* while ElementSelector is mounted, or ElementSelector is mounted.
ListPathStep ==
  /\ sheetOpen'
  /\ selectedElement' # NoSelector
  /\ selectedElement' # selectedElement \/ ~sheetOpen

\* C18: when the selector the effect of ElementSelector runs for matches no
\* element of the document, the selection list stays as it is and no error is
\* raised.
ResolutionMiss ==
  [][ListPathStep /\ ~Resolves(doc', selectedElement')
       => selectedSelectors' = selectedSelectors /\ raised' = raised]_vars

\* The part of C18 for selectors that parse: the list stays as it is and no
\* error is raised.
ResolutionMissParsed ==
  [][(ListPathStep /\ SelectorParses(selectedElement')
        /\ ~Resolves(doc', selectedElement'))
       => selectedSelectors' = selectedSelectors /\ raised' = raised]_vars

\* The callback of the hold timer of the touch that is down commits in this
\* step.
HoldCommitStep ==
  /\ CommitStep
  /\ pressTimer /\ ~pressTimer'
  /\ gesture.down /\ gesture'.down
  /\ gesture.timed

\* The touch that is down moves for the first time in this step.
FirstMoveStep == gesture.down /\ ~gesture.moved /\ gesture'.moved

\* C19: a hold whose touch point has moved commits nothing when its timer
\* fires, and after a move of a touch that started in selection mode an
\* element of the document carries the hover marker.
TouchMoveCancelsHold ==
  /\ [][HoldCommitStep => ~gesture.moved]_vars
  /\ [][FirstMoveStep /\ isSelectionMode /\ gesture.timed
          => \E n \in Elements :
               /\ IsAttached(doc', n)
               /\ classListContains(doc'.classList[n], "highlight-target")]_vars

\* The touch that is down is released in this step.
ReleaseStep == gesture.down /\ ~gesture'.down

\* C20: in selection mode a touch released without movement before its timer
\* fired has committed the touched element once when it is released, and a
\* touch held without movement until its timer fires commits the touched
\* element then.
TapAndHoldSelect ==
  /\ [][(ReleaseStep /\ isSelectionMode /\ gesture.timed /\ ~gesture.moved)
          => gesture'.commits = 1 /\ ~gesture'.other]_vars
  /\ [][(pressTimer /\ ~pressTimer' /\ gesture.down /\ gesture'.down
          /\ gesture.timed /\ ~gesture.moved /\ isSelectionMode
          /\ isSelectionMode' = isSelectionMode /\ domContent' = domContent)
          => CommitStep /\ ~gesture'.other]_vars

\* The elements of the document that carry the hover marker.
HoverMarked ==
  {n \in Nodes : IsAttached(doc, n)
                 /\ classListContains(doc.classList[n], "highlight-target")}

\* A mouseover is dispatched in this step.
MouseOverStep == hovered = NoNode /\ hovered' # NoNode

\* C21: in every reachable state of the overlay at most one element of the
\* document carries the hover marker, and a mouseover changes neither the
\* selection mode nor the selection list.
SingleHoverMarker ==
  /\ [](Cardinality(HoverMarked) <= 1)
  /\ [][MouseOverStep => /\ isSelectionMode' = isSelectionMode
                          /\ selectedSelectors' = selectedSelectors]_vars

\* A record is appended to the selection list in this step.
AppendStep == Len(selectedSelectors') = Len(selectedSelectors) + 1

\* The names in a list of attributes.
NamesOf(attributes) == {attributes[i] : i \in 1..Len(attributes)}

\* C22: the record a commit appends has the attribute set {text}, with the
\* element's text content as the extracted text, when the element has text
\* content, and the empty attribute set otherwise.
DefaultAttributeSet ==
  [][AppendStep =>
       LET record == selectedSelectors'[Len(selectedSelectors')]
           element == querySelector(doc', record.selector).element
           text == textContent(doc', element)
       IN IF text # <<>>
          THEN /\ NamesOf(record.attributes) = {"text"}
               /\ record.extractedData["text"] = text
          ELSE record.attributes = <<>>]_vars

\* Array.from(element.attributes).map(attr => attr.name): the elements of the
\* model carry the attribute id, or none (class apart).
AttributeNamesOf(d, element) == IF d.id[element] # "" THEN {"id"} ELSE {}

\* C23: in every reachable state the attribute set of each record of the
\* selection list is a subset of the attribute names present on the record's
\* element plus the pseudo-attribute text.
AttributeSubset ==
  \A i \in 1..Len(selectedSelectors) :
    LET found == querySelector(doc, selectedSelectors[i].selector)
    IN (~found.threw /\ found.element # NoNode) =>
         NamesOf(selectedSelectors[i].attributes)
           \subseteq AttributeNamesOf(doc, found.element) \cup {"text"}

\* C24: whenever selection mode is on, a click on an element of the rendered
\* document has its default action prevented and its propagation stopped
\* before a handler of the page observes it.
ClickContainment ==
  (isSelectionMode /\ domContent # NoContent /\ ~raised) =>
    LET fate == ClickFate(OverlayState)
    IN fate.prevented /\ fate.stopped /\ ~fate.observed

\* A mutation settles in this step: with onError, with onSuccess.
RejectStep == Len(requests') < Len(requests) /\ toast' = "Error"
SuccessStep == Len(requests') < Len(requests) /\ toast' = "Success"

\* The lists of the saving ElementSelector are cleared in this step: both at
\* once, or more than one attribute at once.
ClearStep ==
  \/ /\ panelSelectors # <<>> /\ selectedAttributes # <<>>
     /\ panelSelectors' = <<>> /\ selectedAttributes' = <<>>
  \/ Len(selectedAttributes) > 1 /\ selectedAttributes' = <<>>

\* C25: a rejected save leaves the selector list and the attribute list of the
\* viewer as they were, so that the save can be issued again, and the lists
\* are cleared only when a save succeeds.
RejectedSaveKeepsLists ==
  /\ [][RejectStep => /\ panelSelectors' = panelSelectors
                       /\ selectedAttributes' = selectedAttributes
                       /\ selectedElement' = selectedElement]_vars
  /\ [][ClearStep => SuccessStep]_vars

\* A save of the list of DOMViewer.tsx with a selector and an attribute has
\* been rejected, and the lists are still the lists that were sent.
RejectedSaveWitness ==
  /\ panel = "DOMViewer.tsx"
  /\ toast = "Error"
  /\ saves = 1 /\ requests = <<>>
  /\ selectors = <<>>
  /\ panelSelectors # <<>> /\ selectedAttributes # <<>>

\* The route answers request i in this step.
AnswerStep(i) ==
  /\ i \in 1..Len(requests)
  /\ Len(requests') = Len(requests)
  /\ requests[i].status = 0
  /\ requests'[i].status # 0

\* C30: a save the client issues with a selector, an attribute and a url is
\* accepted by POST /api/selectors, stored and acknowledged with the stored
\* record; a body that fails the insert schema gets status 400 and leaves the
\* store as it is.
SaveContract ==
  [][\A i \in 1..MaxSaves :
       AnswerStep(i) =>
         LET body == requests[i].body
         IN /\ ((body.selectors # <<>> \/ body.selector # <<>>)
                 /\ body.attributes # <<>> /\ body.url # "")
                => /\ requests'[i].status = 200
                   /\ Len(selectors') = Len(selectors) + 1
                   /\ selectors'[Len(selectors')].id = requests'[i].stored
                   /\ selectors'[Len(selectors')].attributes = body.attributes
                   /\ selectors'[Len(selectors')].url = body.url
            /\ ~safeParse(body)
                => /\ requests'[i].status = 400
                   /\ selectors' = selectors]_vars

\* The fragment of the element itself: the last compound of the selector.
OwnFragment(selector) ==
  LET compounds == split(selector, " > ") IN compounds[Len(compounds)]

\* The lower-case tag name, alone or with a positional suffix.
TagFragments(d, element) ==
  {<<toLowerCase(tagName(element))>>} \cup
  {<<toLowerCase(tagName(element)), ":nth-child(", ToString(k), ")">> :
     k \in 1..Cardinality(Nodes)}

\* generateSelector of part_002 or of part_003 was applied to an element
\* without id and without class.
PlainDerived ==
  /\ derived.fn \in {"DOMViewer", "Preview"}
  /\ doc.id[derived.element] = ""
  /\ doc.classList[derived.element] = <<>>

UniqueResolution ==
  (derived.fn \in {"DOMViewer", "Preview"} /\ SelectorParses(derived.selector)) =>
    querySelectorAll(doc, derived.selector) \subseteq {derived.element}

\* C28: the callback a viewer has subscribed is never called with a frame the
\* hub relayed from a message the same viewer sent.
NoViewerEcho ==
  \A v \in Viewers : \A i \in 1..Len(handled[v]) : handled[v][i].c # v

\* The elements from the nearest one with an id (the element itself or an
\* ancestor), or else from the child of the root element, down to the element.
RECURSIVE PathDown(_, _)
PathDown(d, n) ==
  IF n = NoNode \/ n = HtmlNode THEN <<>>
  ELSE IF d.id[n] # "" THEN <<n>>
       ELSE PathDown(d, d.parent[n]) \o <<n>>

\* The fragment ends with a position.
HasPosition(f) ==
  /\ Len(f) > 3
  /\ f[Len(f) - 2] = ":nth-child(" /\ f[Len(f)] = ")"

\* C29: for an element without id the selector of generateSelector of
\* part_002 and part_004 is "#" and the id of the nearest ancestor that has
\* one, then one fragment for each element below that ancestor down to the
\* element, and none for an element above it; without such an ancestor the
\* fragments start at the child of the root element; every fragment that is
\* not an id is the tag name of its element first and a position last.
IdShortCircuit ==
  (derived.fn = "DOMViewer" /\ doc.id[derived.element] = "") =>
    LET nodes == PathDown(doc, derived.element)
        compounds == split(derived.selector, " > ")
    IN /\ Len(compounds) = Len(nodes)
       /\ doc.id[nodes[1]] = "" => doc.parent[nodes[1]] = HtmlNode
       /\ \A k \in 1..Len(nodes) :
            IF doc.id[nodes[k]] # ""
            THEN compounds[k] = <<"#", doc.id[nodes[k]]>>
            ELSE /\ compounds[k][1] = toLowerCase(tagName(nodes[k]))
                 /\ HasPosition(compounds[k])
                 /\ compounds[k][Len(compounds[k]) - 1]
                      = ToString(childIndex(doc, nodes[k]))

\* The selector of an element two levels below an element with an id that
\* is itself below another element was derived.
IdShortCircuitWitness ==
  /\ derived.fn = "DOMViewer"
  /\ doc.id[derived.element] = ""
  /\ LET nodes == PathDown(doc, derived.element)
     IN /\ Len(nodes) = 2
        /\ doc.id[nodes[1]] # ""
        /\ doc.parent[nodes[1]] \in Elements

\* The sockets of a viewer's channel that are connecting or open.
LiveSockets(v) ==
  {s \in Sockets : owner[s] = v /\ cState[s] \in {"CONNECTING", "OPEN"}}

\* C31: a channel never has more than one socket that is connecting or open,
\* and the hub holds at most one connection of a viewer.
SingleLiveSocket ==
  \A v \in Viewers :
    /\ Cardinality(LiveSockets(v)) <= 1
    /\ Cardinality({s \in Sockets : owner[s] = v /\ hState[s] = "OPEN"}) <= 1

\* C32: the isConnected flag of a mounted channel is true exactly when the
\* channel's current socket is OPEN.
ConnectionFlagAccuracy ==
  \A v \in Viewers :
    phase[v] = "mounted" => (isConnected[v] <=> CurrentIsOpen(ChannelState, v))

\* The sockets the channel of a viewer has constructed.
SocketsOf(v) == {s \in Sockets : owner[s] = v}

\* C33: once a channel is torn down no reconnect timer of it is pending and
\* no socket is constructed for it any more.
TeardownIsFinal ==
  /\ [](\A v \in Viewers :
          phase[v] = "unmounted" => ~timerPending[v] /\ leakedTimers[v] = 0)
  /\ [][\A v \in Viewers :
          phase[v] = "unmounted" =>
            {s \in Sockets : owner'[s] = v} = SocketsOf(v)]_vars

\* C34: a commit of an element whose selector resolves in the document and is
\* not in the selection list of the mounted ElementSelector puts the selector
\* into the list.
CommitTakesEffect ==
  [][/\ CommitStep
     /\ sheetOpen /\ sheetOpen'
     /\ ~raised'
     /\ Resolves(doc', selectedElement')
     /\ ~some(selectedSelectors, selectedElement')
     => some(selectedSelectors', selectedElement')]_vars

\* The record's attributes list holds no name twice and its names are the keys
\* of its extracted data.
RecordConsistent(s) ==
  /\ \A i, j \in 1..Len(s.attributes) : s.attributes[i] = s.attributes[j] => i = j
  /\ {s.attributes[i] : i \in 1..Len(s.attributes)} = DOMAIN s.extractedData

\* C35: every record of the selection list is consistent: no attribute name
\* twice, and the names are the keys of the extracted data.
RecordConsistency ==
  \A k \in 1..Len(selectedSelectors) : RecordConsistent(selectedSelectors[k])

\* The commit of this step is made by a touch handler.
TouchCommitStep == CommitStep /\ gesture'.commits > gesture.commits

\* The commit of this step is made by the click listener.
ClickCommitStep == CommitStep /\ gesture'.commits = gesture.commits

\* C36: the BODY never carries the hover or the selected marker, and no click
\* on it and no touch of it calls onElementSelect.
RootsNeverSelected ==
  /\ [](IsAttached(doc, BodyNode) =>
          /\ ~classListContains(doc.classList[BodyNode], "highlight-target")
          /\ ~classListContains(doc.classList[BodyNode], "selected-element"))
  /\ [][/\ ClickCommitStep /\ gesture.commits < 2 => hovered # BodyNode
        /\ TouchCommitStep => gesture.touched # BodyNode]_vars

\* The elements of the page, and the touched element of the host page, that
\* carry the marker.
Marked(d, host, marker) ==
  {n \in Nodes : IsAttached(d, n) /\ classListContains(d.classList[n], marker)}
    \cup (IF marker \in host THEN {HostNode} ELSE {})

\* C37: no element carries the hover marker and the selected marker at the
\* same time, and after a commit no element carries the hover marker and
\* one element, the committed one, carries the selected marker.
MarkerExclusivity ==
  /\ [](Marked(doc, hostClassList, "highlight-target")
          \cap Marked(doc, hostClassList, "selected-element") = {})
  /\ [][CommitStep /\ viewer # "part_003" =>
          /\ Marked(doc', hostClassList', "highlight-target") = {}
          /\ Cardinality(Marked(doc', hostClassList', "selected-element")) = 1]_vars

\* Every "." of the selector is followed by a class name.
NoEmptyClassFragment(selector) ==
  \A i \in 1..Len(selector) :
    selector[i] = "." => i < Len(selector) /\ selector[i + 1] \notin Punctuation

\* C38: the selector a generateSelector function returns is not empty, each
\* "." in it is followed by a class name, and a selector query parses it.
DerivedWellFormed ==
  derived.fn # "none" =>
    /\ derived.selector # <<>>
    /\ NoEmptyClassFragment(derived.selector)
    /\ SelectorParses(derived.selector)

====
